---- MODULE Spec2Model ----
(***************************************************************************)
(* Personal-handicap race scoring (app/scoring.py) and the chronological   *)
(* handicap recalculation that the route layer runs over the PostgreSQL    *)
(* store (app/routes.py, app/datastore_pg.py).                             *)
(*                                                                         *)
(* Representation notes                                                    *)
(*  - Python None / SQL NULL is the empty tuple <<>>, a present value x is *)
(*    <<x>>; a time text HH:MM:SS is a record of h, m, s (or the blank     *)
(*    text); a race id RACE_<date>_<series>_<n> is <<date, series, n>>.    *)
(*  - Floats are kept exact by scaling: fleet factors are in tenths, the   *)
(*    handicap adjusted time is multiplied by 3600, league points by 10.   *)
(***************************************************************************)
EXTENDS Integers, Sequences, FiniteSets, TLC

VARIABLES
    scoring,      \* module globals of app/scoring.py (the six lookup objects)
    entries,      \* argument of calculate_race_results
    results,      \* its return value, <<>> before the call
    table,        \* a settings document (three lists of rank/size items)
    looked,       \* the lookups made on the built table
    competitors,  \* table competitors: id -> starting/current handicap
    races,        \* tables races + race_results: race_id -> row with entrants
    lastOp,       \* the request or call that completed last
    baseline,     \* the store as it was before the last call, for comparison
    trail,        \* the calls made so far on a store, oldest first
    mode,         \* argument scoring of _season_standings: "league" or "traditional"
    standings,    \* the standings computed last, <<>> before
    processed,    \* the race ids in the order the last call of recalculate_handicaps
                  \* on the store took them (calls inside a request are not recorded)
    series_table, \* table series: series_id -> name and season (no request of the
                  \* model adds a series)
    settings_row, \* table settings: <<>> without a row, else <<config>>
    cache,        \* _STANDINGS_CACHE and _RACE_CACHE of app/routes.py
    returned,     \* what the last response carried: the race id of a redirect,
                  \* the table of a page; <<>> before
    inflight      \* the requests being served: where each one is in its handler
                  \* and the document it holds

vars == <<scoring, entries, results, table, looked, competitors, races, lastOp, baseline, trail,
         mode, standings, processed, series_table, settings_row, cache, returned, inflight>>

-----------------------------------------------------------------------------
(* Optional values and small helpers *)

None == <<>>
Some(x) == <<x>>

EmptyMap == [k \in {} |-> 0]
Put(m, k, v) == [x \in (DOMAIN m) \cup {k} |-> IF x = k THEN v ELSE m[x]]
Get(m, k, d) == IF k \in DOMAIN m THEN m[k] ELSE d

\* both caches after _cache_clear_all(): no standings of any (season, scoring),
\* no results of any race
EmptyCache == [standings |-> EmptyMap, race |-> EmptyMap]

Front(s) == SubSeq(s, 1, Len(s) - 1)
SetMaxOf(S) == CHOOSE x \in S : \A y \in S : y <= x
Last(s) == s[Len(s)]

\* (variant: halves always round up)
RoundHalfUp(n, d) == (2 * n + d) \div (2 * d)

\* Python round(): round half to even, for the quotient n / d with d > 0
RoundHalfEven(n, d) ==
    LET q == n \div d
        r == n % d
    IN  IF 2 * r < d THEN q
        ELSE IF 2 * r > d THEN q + 1
        ELSE IF q % 2 = 0 THEN q ELSE q + 1

\* list.sort(key=...): stable, ascending; s is a sequence of [k, v] records
SortInsert(s, x) ==
    LET p == Cardinality({i \in 1..Len(s) : s[i].k <= x.k})
    IN  SubSeq(s, 1, p) \o <<x>> \o SubSeq(s, p + 1, Len(s))

RECURSIVE StableSort(_)
StableSort(s) ==
    IF s = <<>> THEN <<>> ELSE SortInsert(StableSort(Front(s)), Last(s))

-----------------------------------------------------------------------------
(* Settings lookup tables: app/scoring.py *)

SECONDS_PER_HOUR == 3600

\* a settings key is an integer rank/size or a string sentinel
IntKey(n) == [isint |-> TRUE, n |-> n, s |-> ""]
StrKey(s) == [isint |-> FALSE, n |-> 0, s |-> s]
Item(key, value) == [key |-> key, value |-> value]

RECURSIVE build_lookup(_)
build_lookup(items) ==
    IF items = <<>> THEN [lookup |-> EmptyMap, default |-> 0]
    ELSE LET prev == build_lookup(Front(items))
             item == Last(items)
         IN  IF item.key.isint
             THEN [prev EXCEPT !.lookup = Put(prev.lookup, item.key.n, item.value)]
             ELSE IF item.key.s = "default_or_higher"
                  THEN [prev EXCEPT !.default = item.value]
                  ELSE prev

\* the tables of the test fixture (data/settings.json shape); factors in tenths
DefaultSettings ==
    [handicap_delta_by_rank |->
        << Item(IntKey(1), -30), Item(IntKey(2), -20), Item(IntKey(3), -10),
           Item(IntKey(4), 0), Item(IntKey(5), 10), Item(IntKey(6), 20),
           Item(IntKey(7), 30), Item(IntKey(8), 40), Item(IntKey(9), 50),
           Item(IntKey(10), 60), Item(StrKey("default_or_higher"), 60) >>,
     league_points_by_rank |->
        << Item(IntKey(1), 25), Item(IntKey(2), 18), Item(IntKey(3), 12),
           Item(IntKey(4), 9), Item(IntKey(5), 6),
           Item(StrKey("default_or_higher"), 3) >>,
     fleet_size_factor |->
        << Item(IntKey(1), 0), Item(IntKey(2), 0), Item(IntKey(3), 0),
           Item(IntKey(4), 3), Item(IntKey(5), 6), Item(IntKey(6), 8),
           Item(IntKey(7), 10), Item(IntKey(8), 10), Item(IntKey(9), 10),
           Item(IntKey(10), 10), Item(IntKey(11), 10), Item(IntKey(12), 10),
           Item(StrKey("default_or_higher"), 10) >>]

\* a settings document saved for a small club fleet: handicaps already move
\* with one or two finishers (half scaling for exactly two finishers)
ClubSettings ==
    [handicap_delta_by_rank |->
        << Item(IntKey(1), -5), Item(StrKey("default_or_higher"), 5) >>,
     league_points_by_rank |->
        << Item(IntKey(1), 10), Item(StrKey("default_or_higher"), 5) >>,
     fleet_size_factor |->
        << Item(IntKey(2), 5), Item(StrKey("default_or_higher"), 10) >>]

\* module import: the six globals built from a settings document
LoadScoring(settings) ==
    LET hd == build_lookup(settings.handicap_delta_by_rank)
        lp == build_lookup(settings.league_points_by_rank)
        ff == build_lookup(settings.fleet_size_factor)
    IN  [HANDICAP_DELTAS |-> hd.lookup, HANDICAP_DEFAULT |-> hd.default,
         LEAGUE_POINTS |-> lp.lookup, POINTS_DEFAULT |-> lp.default,
         FLEET_FACTORS |-> ff.lookup, FLEET_DEFAULT |-> ff.default]

\* (variant: the default_or_higher value is not used as the fallback)
full_delta_no_default(position) == Get(scoring.HANDICAP_DELTAS, position, 0)

full_delta(position) == Get(scoring.HANDICAP_DELTAS, position, scoring.HANDICAP_DEFAULT)
scaling_factor(fleet_size) == Get(scoring.FLEET_FACTORS, fleet_size, scoring.FLEET_DEFAULT)
base_points(position) == Get(scoring.LEAGUE_POINTS, position, scoring.POINTS_DEFAULT)

-----------------------------------------------------------------------------
(* Single-race scorer: app/scoring.py calculate_race_results *)

\* an entry as the callers build it; finish is in seconds, None when absent
Entry(cid, start, finish, initial, status) ==
    [competitor_id |-> cid, start |-> start, finish |-> finish,
     initial_handicap |-> initial, status |-> status]

adjusted_time(start, finish, handicap) ==
    LET elapsed_seconds == finish - start
    IN  [elapsed_seconds |-> elapsed_seconds,
         allowance_x3600 |-> handicap * elapsed_seconds,
         adjusted_x3600 |-> elapsed_seconds * SECONDS_PER_HOUR - handicap * elapsed_seconds]

NonFinisherStatus == {"DNF", "DNS", "DSQ"}

\* (variant: a disqualified boat with a finish time is ranked)
IsNonFinisherNoDSQ(entry) == entry.status \in {"DNF", "DNS"} \/ entry.finish = None

IsNonFinisher(entry) == entry.status \in NonFinisherStatus \/ entry.finish = None

\* adjusted_time() of a finisher whose initial_handicap is None is a TypeError
ScoringRaises(es) ==
    \E i \in 1..Len(es) : ~IsNonFinisher(es[i]) /\ es[i].initial_handicap = None

\* the "last / position" loop over a sorted key list (used for both rankings)
RECURSIVE PositionLoop(_, _)
PositionLoop(keys, idx) ==
    IF idx = 0 THEN [last |-> None, position |-> 0, out |-> <<>>]
    ELSE LET st == PositionLoop(keys, idx - 1)
             adv == st.last = None \/ keys[idx] > st.last[1]
             pos == IF adv THEN idx ELSE st.position
         IN  [last |-> IF adv THEN Some(keys[idx]) ELSE st.last,
              position |-> pos,
              out |-> Append(st.out, pos)]

\* (variant: every boat gets its own index, ties are not shared)
PositionsNoTies(keys) == [i \in 1..Len(keys) |-> i]

Positions(keys) == PositionLoop(keys, Len(keys)).out

FinisherResult(entry, abs_position, handicap_position, factor) ==
    LET times == adjusted_time(entry.start, entry.finish[1], entry.initial_handicap[1])
        base_delta == full_delta(handicap_position)
        scaled_x10 == base_delta * factor
        actual_delta == RoundHalfEven(scaled_x10, 10)
    IN  [competitor_id |-> entry.competitor_id,
         start |-> entry.start,
         finish |-> entry.finish,
         initial_handicap |-> entry.initial_handicap,
         status |-> entry.status,
         elapsed_seconds |-> times.elapsed_seconds,
         allowance_x3600 |-> times.allowance_x3600,
         adjusted_x3600 |-> times.adjusted_x3600,
         absolute_position |-> Some(abs_position),
         handicap_position |-> Some(handicap_position),
         full_delta |-> base_delta,
         scaled_delta_x10 |-> scaled_x10,
         actual_delta |-> actual_delta,
         revised_handicap |-> Some(entry.initial_handicap[1] + actual_delta),
         points_x10 |-> base_points(handicap_position) * factor,
         traditional_points |-> handicap_position]

NonFinisherResult(entry, non_finisher_points) ==
    [competitor_id |-> entry.competitor_id,
     start |-> entry.start,
     finish |-> None,
     initial_handicap |-> entry.initial_handicap,
     status |-> entry.status,
     elapsed_seconds |-> 0,
     allowance_x3600 |-> 0,
     adjusted_x3600 |-> 0,
     absolute_position |-> None,
     handicap_position |-> None,
     full_delta |-> 0,
     scaled_delta_x10 |-> 0,
     actual_delta |-> 0,
     revised_handicap |-> entry.initial_handicap,
     points_x10 |-> 0,
     traditional_points |-> non_finisher_points]

\* (variant: only a race without finishers is degenerate)
DegenerateRaceNoFinishers(race_start, fleet_size) == fleet_size = 0

\* (race_start in (0, None)) or not finishers
DegenerateRace(race_start, fleet_size) ==
    race_start = None \/ race_start = Some(0) \/ fleet_size = 0

calculate_race_results(es) ==
    LET race_start == IF es = <<>> THEN None ELSE Some(es[1].start)
        fin == SelectSeq(es, LAMBDA e : ~IsNonFinisher(e))
        non == SelectSeq(es, IsNonFinisher)
        elapsedOf(e) == adjusted_time(e.start, e.finish[1], e.initial_handicap[1]).elapsed_seconds
        adjustedOf(e) == adjusted_time(e.start, e.finish[1], e.initial_handicap[1]).adjusted_x3600
        \* finishers.sort(key=elapsed_seconds) and the absolute positions
        byElapsed == StableSort([i \in 1..Len(fin) |-> [k |-> elapsedOf(fin[i]), v |-> fin[i]]])
        absPos == Positions([i \in 1..Len(byElapsed) |-> byElapsed[i].k])
        \* finishers.sort(key=adjusted_time_seconds) and the handicap positions
        byAdjusted == StableSort([i \in 1..Len(byElapsed) |->
                          [k |-> adjustedOf(byElapsed[i].v),
                           v |-> [entry |-> byElapsed[i].v, abs |-> absPos[i]]]])
        hcpPos == Positions([i \in 1..Len(byAdjusted) |-> byAdjusted[i].k])
        fleet_size == Len(fin)
        factor == scaling_factor(fleet_size)
        finishers == [i \in 1..Len(byAdjusted) |->
                         FinisherResult(byAdjusted[i].v.entry, byAdjusted[i].v.abs, hcpPos[i], factor)]
        non_finishers == [i \in 1..Len(non) |-> NonFinisherResult(non[i], fleet_size + 1)]
        res == finishers \o non_finishers
    IN  IF DegenerateRace(race_start, fleet_size)
        THEN [i \in 1..Len(res) |-> [res[i] EXCEPT !.traditional_points = 0]]
        ELSE res

-----------------------------------------------------------------------------
(* Bounds and input sets *)

MaxEntries == 3      \* longest mixed entry list passed to the scorer
MaxFleet == 12       \* largest fleet fixture (all boats on the same handicap)
MaxItems == 3        \* longest settings list passed to _build_lookup
MaxKey == 12         \* largest rank / fleet size looked up

\* race start of the scorer inputs, in seconds (0 is the unit-test fixture shape)
ScoreStarts == {0, 600}

\* what one boat of a mixed entry list looks like: elapsed time to its finish
\* (None = no finish time), handicap carried into the race, status
EntryProfiles ==
    { [elapsed |-> Some(3240), initial |-> Some(0),   status |-> "None"],
      [elapsed |-> Some(3600), initial |-> Some(360), status |-> "None"],
      [elapsed |-> Some(3600), initial |-> Some(0),   status |-> "None"],
      [elapsed |-> None,       initial |-> Some(0),   status |-> "None"],
      [elapsed |-> None,       initial |-> None,      status |-> "None"],
      [elapsed |-> None,       initial |-> Some(360), status |-> "DNF"],
      [elapsed |-> Some(3240), initial |-> Some(0),   status |-> "DNS"],
      [elapsed |-> Some(3600), initial |-> Some(360), status |-> "DSQ"] }

ProfileEntry(cid, start, p) ==
    Entry(cid, start,
          IF p.elapsed = None THEN None ELSE Some(start + p.elapsed[1]),
          p.initial, p.status)

\* fleet fixture: boat i finishes 40 s after boat i-1 on handicap 300, or retires
FleetEntry(cid, start, finished) ==
    Entry(cid, start,
          IF finished THEN Some(start + 3600 + 40 * (cid - 1)) ELSE None,
          Some(300),
          IF finished THEN "None" ELSE "DNF")

SettingsChoices == {DefaultSettings, ClubSettings}

LookupKeys == {IntKey(1), IntKey(2), StrKey("default_or_higher"), StrKey("2")}
LookupValues == {5, 7}

-----------------------------------------------------------------------------
(* Specification of the scorer as a function of its inputs *)

Idle ==
    /\ series_table = EmptyMap
    /\ table = <<>>
    /\ looked = <<>>
    /\ competitors = EmptyMap
    /\ races = EmptyMap
    /\ baseline = <<>>
    /\ mode = ""
    /\ standings = <<>>
    /\ processed = <<>>
    /\ settings_row = <<>>
    /\ cache = EmptyCache
    /\ returned = <<>>
    /\ inflight = <<>>
    /\ trail = <<>>

InitScore ==
    /\ \E st \in SettingsChoices : scoring = LoadScoring(st)
    /\ \/ \E n \in 1..MaxEntries, start \in ScoreStarts : \E f \in [1..n -> EntryProfiles] :
              entries = [i \in 1..n |-> ProfileEntry(i, start, f[i])]
       \/ \E n \in 1..MaxFleet, start \in ScoreStarts : \E f \in [1..n -> BOOLEAN] :
              entries = [i \in 1..n |-> FleetEntry(i, start, f[i])]
    /\ results = <<>>
    /\ lastOp = "init"
    /\ Idle

Score ==
    /\ lastOp = "init"
    /\ ~ScoringRaises(entries)
    /\ results' = calculate_race_results(entries)
    /\ lastOp' = "calculate_race_results"
    /\ UNCHANGED <<settings_row, cache, returned, inflight, series_table, processed, mode, standings, scoring, entries, table, looked, competitors, races, baseline, trail>>

NextScore == Score

SpecScore == InitScore /\ [][NextScore]_vars

-----------------------------------------------------------------------------
(* Specification of the lookup tables as a function of the settings list *)

InitLookup ==
    /\ \/ \E n \in 0..MaxItems : \E ks \in [1..n -> LookupKeys], vs \in [1..n -> LookupValues] :
             LET items == [i \in 1..n |-> Item(ks[i], vs[i])]
             IN  table = [handicap_delta_by_rank |-> items,
                          league_points_by_rank |-> items,
                          fleet_size_factor |-> items]
       \/ table \in SettingsChoices
    /\ scoring = LoadScoring(table)
    /\ series_table = EmptyMap
    /\ looked = <<>>
    /\ entries = <<>>
    /\ results = <<>>
    /\ competitors = EmptyMap
    /\ races = EmptyMap
    /\ baseline = <<>>
    /\ mode = ""
    /\ standings = <<>>
    /\ processed = <<>>
    /\ settings_row = <<>>
    /\ cache = EmptyCache
    /\ returned = <<>>
    /\ inflight = <<>>
    /\ trail = <<>>
    /\ lastOp = "init"

Lookup(key) ==
    /\ looked' = Some([key |-> key,
                       full_delta |-> full_delta(key),
                       base_points |-> base_points(key),
                       scaling_factor |-> scaling_factor(key)])
    /\ lastOp' = "lookup"
    /\ UNCHANGED <<settings_row, cache, returned, inflight, series_table, processed, mode, standings, scoring, entries, results, table, competitors, races, baseline, trail>>

NextLookup == \E key \in 0..MaxKey : Lookup(key)

SpecLookup == InitLookup /\ [][NextLookup]_vars

-----------------------------------------------------------------------------
(* PostgreSQL store: app/datastore_pg.py                                    *)
(*                                                                         *)
(* competitors : id -> [starting_handicap_s_per_hr, current_handicap_s_per_hr] *)
(* races       : race_id -> [series_id, date, start_time, race_no,          *)
(*               competitors : id -> [initial_handicap, finish_time,        *)
(*                                    handicap_override]]                   *)
(* All columns but the keys, series_id, date and race_no are nullable.      *)
(* The season has two series, named "1" and "2" (series_id = name), and a   *)
(* date is the day of the season.                                           *)

Cids == {1, 2}
SeriesNames == {1, 2}

\* the rows of table series: each series named after its id, in one season
DistinctNames == [sid \in SeriesNames |-> [name |-> sid, season |-> 1]]

\* the rows when the name of a series is used again the season after:
\* ensure_series looks for the name among the series of one season only
ReusedName == [sid \in SeriesNames |-> [name |-> 1, season |-> sid]]

\* a time text: zero-padded HH:MM:SS, or the empty string
Hms(h, m, s) == [blank |-> FALSE, h |-> h, m |-> m, s |-> s]
Blank == [blank |-> TRUE, h |-> 0, m |-> 0, s |-> 0]

\* truthiness of an optional text
Truthy(t) == t # None /\ ~t[1].blank

parse_hms(t) ==
    IF ~Truthy(t) THEN None
    ELSE Some(t[1].h * 3600 + t[1].m * 60 + t[1].s)

\* Python "x or 0" on an optional integer
OrZero(x) == IF x = None THEN 0 ELSE x[1]

\* comparison of tuples of integers, as SQL ORDER BY a, b, c and Python tuples
RECURSIVE LexLeq(_, _)
LexLeq(a, b) ==
    IF a = <<>> THEN TRUE
    ELSE IF b = <<>> THEN FALSE
    ELSE IF a[1] # b[1] THEN a[1] < b[1]
    ELSE LexLeq(Tail(a), Tail(b))

\* stable ascending sort of [k, v] records on tuple keys
SortInsertLex(s, x) ==
    LET p == Cardinality({i \in 1..Len(s) : LexLeq(s[i].k, x.k)})
    IN  SubSeq(s, 1, p) \o <<x>> \o SubSeq(s, p + 1, Len(s))

RECURSIVE StableSortLex(_)
StableSortLex(s) ==
    IF s = <<>> THEN <<>> ELSE SortInsertLex(StableSortLex(Front(s)), Last(s))

Values(s) == [i \in 1..Len(s) |-> s[i].v]

RECURSIVE SetToSeq(_)
SetToSeq(S) ==
    IF S = {} THEN <<>>
    ELSE LET x == CHOOSE y \in S : TRUE IN <<x>> \o SetToSeq(S \ {x})

\* the elements of a set of integers in ascending order (ORDER BY id)
Ascending(S) ==
    LET all == SetToSeq(S)
    IN  Values(StableSortLex([i \in 1..Len(all) |-> [k |-> <<all[i]>>, v |-> all[i]]]))

RECURSIVE Flatten(_)
Flatten(ss) == IF ss = <<>> THEN <<>> ELSE Flatten(Front(ss)) \o Last(ss)

\* ORDER BY on a TIME column with NULLS LAST
SqlTimeKey(t) == IF t = None THEN <<24, 0, 0>> ELSE <<t[1].h, t[1].m, t[1].s>>

\* Python: start_time or "" (None and the empty text sort first)
PyTimeKey(t) == IF ~Truthy(t) THEN <<-1, -1, -1>> ELSE <<t[1].h, t[1].m, t[1].s>>

RaceId(date, name, idx) == <<date, name, idx>>

\* ORDER BY date, start_time NULLS LAST, race_id
get_races(rcs) ==
    LET all == SetToSeq(DOMAIN rcs)
    IN  Values(StableSortLex([i \in 1..Len(all) |->
            [k |-> <<rcs[all[i]].date>> \o SqlTimeKey(rcs[all[i]].start_time) \o all[i],
             v |-> all[i]]]))

\* the entrants of a race as load_data lists them (ORDER BY competitor_ref)
LoadEntrants(row) ==
    LET ids == Ascending(DOMAIN row.competitors)
    IN  [i \in 1..Len(ids) |->
            [competitor_id |-> ids[i],
             initial_handicap |-> row.competitors[ids[i]].initial_handicap,
             finish_time |-> row.competitors[ids[i]].finish_time,
             handicap_override |-> row.competitors[ids[i]].handicap_override]]

LoadRace(rcs, rid) ==
    [race_id |-> rid,
     series_id |-> rcs[rid].series_id,
     date |-> rcs[rid].date,
     start_time |-> rcs[rid].start_time,
     race_no |-> rcs[rid].race_no,
     competitors |-> LoadEntrants(rcs[rid])]

\* the races of one series: the join is ordered like get_races
LoadSeries(series_rows, rcs, name) ==
    LET ordered == get_races(rcs)
        own == SelectSeq(ordered, LAMBDA rid : rcs[rid].series_id = name)
    IN  [series_id |-> name, name |-> series_rows[name].name,
         races |-> [i \in 1..Len(own) |-> LoadRace(rcs, own[i])]]

LoadFleet(comps) ==
    LET ids == Ascending(DOMAIN comps)
    IN  [i \in 1..Len(ids) |->
            LET starting == comps[ids[i]].starting_handicap_s_per_hr
                current == comps[ids[i]].current_handicap_s_per_hr
            IN  [competitor_id |-> ids[i],
                 starting_handicap_s_per_hr |-> OrZero(starting),
                 current_handicap_s_per_hr |->
                     IF OrZero(current) # 0 THEN current[1] ELSE OrZero(starting)]]

load_data(series_rows, comps, rcs) ==
    LET names == Ascending(SeriesNames)
    IN  [fleet |-> LoadFleet(comps),
         seasons |-> [i \in 1..Len(names) |-> LoadSeries(series_rows, rcs, names[i])]]

\* finish_time: empty text -> NULL
SaveFinish(t) == IF Truthy(t) THEN t ELSE None

RECURSIVE SaveEntrants(_)
SaveEntrants(ents) ==
    IF ents = <<>> THEN EmptyMap
    ELSE LET ent == Last(ents)
         IN  Put(SaveEntrants(Front(ents)), ent.competitor_id,
                 [initial_handicap |-> ent.initial_handicap,
                  finish_time |-> SaveFinish(ent.finish_time),
                  handicap_override |-> ent.handicap_override])

\* the races of a document, each with the series it is listed under
DocRaces(seasons) ==
    Flatten([i \in 1..Len(seasons) |->
        [j \in 1..Len(seasons[i].races) |->
            [series_id |-> seasons[i].series_id, race |-> seasons[i].races[j]]]])

\* upsert of every race in the document; rows with any other id are deleted
RECURSIVE SaveRaces(_)
SaveRaces(listed) ==
    IF listed = <<>> THEN EmptyMap
    ELSE LET it == Last(listed)
         IN  Put(SaveRaces(Front(listed)), it.race.race_id,
                 [series_id |-> it.series_id,
                  date |-> it.race.date,
                  start_time |-> it.race.start_time,
                  race_no |-> it.race.race_no,
                  competitors |-> SaveEntrants(it.race.competitors)])

\* upsert of the fleet rows: current "or" starting
RECURSIVE SaveFleet(_, _)
SaveFleet(comps, fleet) ==
    IF fleet = <<>> THEN comps
    ELSE LET comp == Last(fleet)
             start_h == comp.starting_handicap_s_per_hr
             curr_h == IF comp.current_handicap_s_per_hr # 0
                       THEN comp.current_handicap_s_per_hr ELSE start_h
         IN  Put(SaveFleet(comps, Front(fleet)), comp.competitor_id,
                 [starting_handicap_s_per_hr |-> Some(start_h),
                  current_handicap_s_per_hr |-> Some(curr_h)])

\* save_data({'seasons': ..., 'fleet': ...}); sections is the set of keys given
save_data(db, data, sections) ==
    [competitors |-> IF "fleet" \in sections
                     THEN SaveFleet(db.competitors, data.fleet) ELSE db.competitors,
     races |-> IF "seasons" \in sections
               THEN SaveRaces(DocRaces(data.seasons)) ELSE db.races,
     series |-> db.series]

renumber_races(series) ==
    LET rs == series.races
        sorted == Values(StableSortLex([i \in 1..Len(rs) |->
                      [k |-> <<rs[i].date>> \o PyTimeKey(rs[i].start_time), v |-> rs[i]]]))
    IN  [series EXCEPT !.races =
            [idx \in 1..Len(sorted) |->
                [sorted[idx] EXCEPT !.race_id = RaceId(sorted[idx].date, series.name, idx),
                                    !.race_no = idx]]]

\* (variant: the current handicaps of the fleet are not written)
apply_recalculated_handicaps_seeds_only(db, pre_by_race, fleet_current) ==
    [db EXCEPT !.races =
        [rid \in DOMAIN db.races |->
            [db.races[rid] EXCEPT !.competitors =
                [cid \in DOMAIN db.races[rid].competitors |->
                    LET row == db.races[rid].competitors[cid]
                    IN  IF /\ rid \in DOMAIN pre_by_race
                           /\ cid \in DOMAIN pre_by_race[rid]
                           /\ row.handicap_override = None
                        THEN [row EXCEPT !.initial_handicap = Some(pre_by_race[rid][cid])]
                        ELSE row]]]]

apply_recalculated_handicaps(db, pre_by_race, fleet_current) ==
    IF DOMAIN pre_by_race = {} THEN db
    ELSE [series |-> db.series,
          competitors |->
              [cid \in DOMAIN db.competitors |->
                  IF cid \in DOMAIN fleet_current
                  THEN [db.competitors[cid] EXCEPT
                           !.current_handicap_s_per_hr = Some(fleet_current[cid])]
                  ELSE db.competitors[cid]],
          races |->
              [rid \in DOMAIN db.races |->
                  [db.races[rid] EXCEPT !.competitors =
                      [cid \in DOMAIN db.races[rid].competitors |->
                          LET row == db.races[rid].competitors[cid]
                          IN  IF /\ rid \in DOMAIN pre_by_race
                                 /\ cid \in DOMAIN pre_by_race[rid]
                                 /\ row.handicap_override = None
                              THEN [row EXCEPT !.initial_handicap = Some(pre_by_race[rid][cid])]
                              ELSE row]]]]

-----------------------------------------------------------------------------
(* Chronological recalculation: app/routes.py *)

\* the entry the drivers hand to the scorer for one entrant (no status column)
CalcEntry(ent, start_seconds, initial) ==
    Entry(ent.competitor_id, start_seconds, parse_hms(ent.finish_time), initial, "None")

\* (variant: the revised handicaps of a race are not carried to the next)
FeedForwardDropped(handicap_map, res) == handicap_map

\* handicap_map[cid] = revised for every result that has a revised handicap
RECURSIVE FeedForward(_, _)
FeedForward(handicap_map, res) ==
    IF res = <<>> THEN handicap_map
    ELSE LET m == FeedForward(handicap_map, Front(res))
             r == Last(res)
         IN  IF r.revised_handicap # None
             THEN Put(m, r.competitor_id, r.revised_handicap[1])
             ELSE m

\* (variant: an override is not used as the seed)
SeedInitialCarried(ent, handicap_map) ==
    Get(handicap_map, ent.competitor_id, 0)

\* the pre-race seed of one entrant: the override, else the carried handicap
SeedInitial(ent, handicap_map) ==
    IF ent.handicap_override # None
    THEN ent.handicap_override[1]
    ELSE Get(handicap_map, ent.competitor_id, 0)

\* one iteration of the loop over race_list; st = [handicap_map, seeds]
RecalcRace(st, race) ==
    LET ents == race.competitors
        start_seconds == OrZero(parse_hms(race.start_time))
        initial == [i \in 1..Len(ents) |-> SeedInitial(ents[i], st.handicap_map)]
        seeded == [i \in 1..Len(ents) |->
                      [ents[i] EXCEPT !.initial_handicap = Some(initial[i])]]
        calc_entries == [i \in 1..Len(ents) |->
                            CalcEntry(ents[i], start_seconds, Some(initial[i]))]
        overridden == {i \in 1..Len(ents) : ents[i].handicap_override # None}
        map1 == [cid \in DOMAIN st.handicap_map \cup {ents[i].competitor_id : i \in overridden} |->
                    IF \E i \in overridden : ents[i].competitor_id = cid
                    THEN initial[CHOOSE i \in overridden : ents[i].competitor_id = cid]
                    ELSE st.handicap_map[cid]]
    IN  [handicap_map |-> IF calc_entries = <<>> THEN map1
                          ELSE FeedForward(map1, calculate_race_results(calc_entries)),
         seeds |-> Put(st.seeds, race.race_id, seeded)]

RECURSIVE RecalcLoop(_, _)
RecalcLoop(handicap_map, race_list) ==
    IF race_list = <<>> THEN [handicap_map |-> handicap_map, seeds |-> EmptyMap]
    ELSE CHOOSE out \in {RecalcRace(st, Last(race_list)) :
                            st \in {RecalcLoop(handicap_map, Front(race_list))}} : TRUE

\* pre_by_race: race_id -> (competitor_id -> seed), for races with entrants
PreByRace(seeds) ==
    [rid \in {r \in DOMAIN seeds : seeds[r] # <<>>} |->
        [cid \in {seeds[rid][i].competitor_id : i \in 1..Len(seeds[rid])} |->
            LET i == CHOOSE j \in 1..Len(seeds[rid]) : seeds[rid][j].competitor_id = cid
            IN  seeds[rid][i].initial_handicap[1]]]

\* (variant: the replay starts from the current handicaps of the fleet)
SeedHandicapCurrent(comp) == comp.current_handicap_s_per_hr

\* the handicap a competitor starts the replay on
SeedHandicap(comp) == comp.starting_handicap_s_per_hr

\* handicap_map before the first race: SeedHandicap of every competitor
HandicapMap(fleet) ==
    [cid \in {fleet[i].competitor_id : i \in 1..Len(fleet)} |->
        SeedHandicap(fleet[CHOOSE j \in 1..Len(fleet) : fleet[j].competitor_id = cid])]

\* race_list: the races in the order of get_races()
RaceList(rcs, order) == [i \in 1..Len(order) |-> LoadRace(rcs, order[i])]

\* the document with the seeds written into the entrants
SeededSeasons(seasons, seeds) ==
    [i \in 1..Len(seasons) |->
        [seasons[i] EXCEPT !.races =
            [j \in 1..Len(seasons[i].races) |->
                [seasons[i].races[j] EXCEPT !.competitors =
                    seeds[seasons[i].races[j].race_id]]]]]

\* the fleet with current_handicap_s_per_hr taken from handicap_map
FleetWithCurrent(fleet, handicap_map) ==
    [i \in 1..Len(fleet) |->
        [fleet[i] EXCEPT !.current_handicap_s_per_hr =
            Get(handicap_map, fleet[i].competitor_id, fleet[i].current_handicap_s_per_hr)]]

\* fleet_current: competitor_id -> current handicap
FleetCurrent(fleet) ==
    [cid \in {fleet[i].competitor_id : i \in 1..Len(fleet)} |->
        fleet[CHOOSE j \in 1..Len(fleet) : fleet[j].competitor_id = cid]
            .current_handicap_s_per_hr]

\* save_data of both sections, then the targeted write of the seeds
RecalcWrite(db, seasons, fleet, seeds) ==
    apply_recalculated_handicaps(
        save_data(db, [seasons |-> seasons, fleet |-> fleet], {"seasons", "fleet"}),
        PreByRace(seeds),
        FleetCurrent(fleet))

RecalcReplayed(db, data, done) ==
    RecalcWrite(db,
                SeededSeasons(data.seasons, done.seeds),
                FleetWithCurrent(data.fleet, done.handicap_map),
                done.seeds)

RecalcLoaded(db, data) ==
    RecalcReplayed(db, data,
                   RecalcLoop(HandicapMap(data.fleet), RaceList(db.races, get_races(db.races))))

\* the store after recalculate_handicaps() has run on db
recalculate_handicaps(db) == RecalcLoaded(db, load_data(db.series, db.competitors, db.races))

\* ORDER BY ... DESC NULLS LAST: a NULL start sorts below every time
DescTimeKey(t) == IF t = None THEN <<-1, -1, -1>> ELSE <<t[1].h, t[1].m, t[1].s>>

\* list_all_races: ORDER BY date DESC, start_time DESC names no further
\* column, so rows equal in both come in any order
ListAllRaces(rcs) ==
    LET n == Cardinality(DOMAIN rcs)
    IN  {s \in [1..n -> DOMAIN rcs] :
            /\ \A i, j \in 1..n : i # j => s[i] # s[j]
            /\ \A i \in 1..(n - 1) :
                  LexLeq(<<rcs[s[i + 1]].date>> \o DescTimeKey(rcs[s[i + 1]].start_time),
                         <<rcs[s[i]].date>> \o DescTimeKey(rcs[s[i]].start_time))}

\* sorted(..., key=(date or "", start_time or "")): a stable sort, no race_id
SortedByDateTime(rcs, ids) ==
    Values(StableSortLex([i \in 1..Len(ids) |->
        [k |-> <<rcs[ids[i]].date>> \o PyTimeKey(rcs[ids[i]].start_time),
         v |-> ids[i]]]))

\* datastore.get_races when datastore_pg.get_races raises: the rows of
\* list_all_races sorted by (date, start_time)
FallbackRaces(rcs) == {SortedByDateTime(rcs, listed) : listed \in ListAllRaces(rcs)}

\* race_list before it is sorted: the races of the document, series by series
DocumentIds(data) ==
    Flatten([i \in 1..Len(data.seasons) |->
                [j \in 1..Len(data.seasons[i].races) |-> data.seasons[i].races[j].race_id]])

\* the orders recalculate_handicaps can take the races in, by where the order
\* comes from: datastore_pg.get_races, the fallback of datastore.get_races,
\* or (with an empty order map) race_list.sort(key=(date, start_time)); no
\* NULL start is drawn, which that sort cannot compare with a text
ProcessingOrders(db, source) ==
    CASE source = "get_races" -> {get_races(db.races)}
      [] source = "list_all_races" -> FallbackRaces(db.races)
      [] source = "sort" ->
            {SortedByDateTime(db.races,
                              DocumentIds(load_data(db.series, db.competitors, db.races)))}

\* the store after recalculate_handicaps() has taken the races in that order
recalculate_handicaps_in(db, race_ids) ==
    RecalcReplayed(db, load_data(db.series, db.competitors, db.races),
                   RecalcLoop(HandicapMap(LoadFleet(db.competitors)),
                              RaceList(db.races, race_ids)))

\* a text that is not HH:MM:SS: "10:30", whose seconds field is missing (s = -1)
Malformed == [blank |-> FALSE, h |-> 10, m |-> 30, s |-> -1]

\* h, m, s = map(int, t.split(":")) raises ValueError on such a text
ParseRaises(t) == Truthy(t) /\ t[1].s < 0

\* the loop over race_list parses the start time of every race and every
\* truthy finish_time, outside any try block
RecalcRaises(race_list) ==
    \E i \in 1..Len(race_list) :
        \/ ParseRaises(race_list[i].start_time)
        \/ \E j \in 1..Len(race_list[i].competitors) :
               ParseRaises(race_list[i].competitors[j].finish_time)

\* the outcome of recalculate_handicaps() on db: the exception that leaves the
\* function, if any, and the store (nothing is written before the loop ends)
recalculate_handicaps_outcome(db) ==
    IF RecalcRaises(RaceList(db.races, get_races(db.races)))
    THEN [raised |-> "ValueError", db |-> db]
    ELSE [raised |-> "", db |-> recalculate_handicaps(db)]

-----------------------------------------------------------------------------
(* Request handlers: app/routes.py *)

\* the JSON body of POST /api/races/<race_id>; an absent key is None
Payload(series_id, date, start_time, finish_times, handicap_overrides) ==
    [series_id |-> series_id, date |-> date, start_time |-> start_time,
     finish_times |-> finish_times, handicap_overrides |-> handicap_overrides]

FinishItem(cid, finish_time) == [competitor_id |-> cid, finish_time |-> finish_time]
OverrideItem(cid, handicap) == [competitor_id |-> cid, handicap |-> handicap]

\* {ft['competitor_id']: ft.get('finish_time') for ft in finish_times}
RECURSIVE FtMap(_)
FtMap(items) ==
    IF items = <<>> THEN EmptyMap
    ELSE Put(FtMap(Front(items)), Last(items).competitor_id, Last(items).finish_time)

\* {o['competitor_id']: o.get('handicap') for o in handicap_overrides}
RECURSIVE OvMap(_)
OvMap(items) ==
    IF items = <<>> THEN EmptyMap
    ELSE Put(OvMap(Front(items)), Last(items).competitor_id, Last(items).handicap)

\* the keys of such a dict in insertion order
RECURSIVE FirstKeys(_)
FirstKeys(items) ==
    IF items = <<>> THEN <<>>
    ELSE LET prev == FirstKeys(Front(items))
             k == Last(items).competitor_id
         IN  IF \E i \in 1..Len(prev) : prev[i] = k THEN prev ELSE Append(prev, k)

\* _parse_cid aborts with 400 on an id that is not in the fleet
UnknownCompetitor(db, p) ==
    \/ \E i \in 1..Len(p.finish_times) :
          p.finish_times[i].competitor_id \notin DOMAIN db.competitors
    \/ \E i \in 1..Len(p.handicap_overrides) :
          p.handicap_overrides[i].competitor_id \notin DOMAIN db.competitors

apply_overrides(entrants_list, handicap_overrides) ==
    IF handicap_overrides = <<>> THEN entrants_list
    ELSE LET ov_map == OvMap(handicap_overrides)
         IN  [i \in 1..Len(entrants_list) |->
                 IF entrants_list[i].competitor_id \in DOMAIN ov_map
                 THEN [entrants_list[i] EXCEPT
                          !.handicap_override = ov_map[entrants_list[i].competitor_id]]
                 ELSE entrants_list[i]]

\* the TIME column start_time takes NULL or a time, not the empty text
Storable(seasons) ==
    \A i \in 1..Len(seasons) : \A j \in 1..Len(seasons[i].races) :
        LET t == seasons[i].races[j].start_time IN t = None \/ ~t[1].blank

Response(status, db) == [status |-> status, db |-> db]

\* save_data({'seasons': ...}) at the end of a handler
Persist(db, seasons) ==
    IF ~Storable(seasons) THEN Response(500, db)
    ELSE Response(200, save_data(db, [seasons |-> seasons], {"seasons"}))

\* recalculate_handicaps() after a successful save
ThenRecalculate(saved) ==
    IF saved.status = 200 THEN Response(200, recalculate_handicaps(saved.db)) ELSE saved

\* ds_find_race(race_id, data=store): the race and the series listing it
FindRace(seasons, race_id) ==
    SelectSeq(DocRaces(seasons), LAMBDA it : it.race.race_id = race_id)

\* the race object update_race('__new__') appends
NewRace(p) ==
    [race_id |-> <<>>,
     series_id |-> p.series_id[1],
     date |-> p.date[1],
     start_time |-> IF Truthy(p.start_time) THEN p.start_time ELSE Some(Blank),
     race_no |-> 0,
     competitors |->
         apply_overrides(
             [i \in 1..Len(p.finish_times) |->
                 [competitor_id |-> p.finish_times[i].competitor_id,
                  initial_handicap |-> None,
                  finish_time |-> p.finish_times[i].finish_time,
                  handicap_override |-> None]],
             p.handicap_overrides)]

CreateSeasons(seasons, new_race) ==
    [i \in 1..Len(seasons) |->
        IF seasons[i].series_id = new_race.series_id
        THEN renumber_races([seasons[i] EXCEPT !.races = Append(@, new_race)])
        ELSE seasons[i]]

\* series_obj['races'] after the append and the sort of renumber_races, each
\* race still under the id it had before (the appended race has none)
AppendedOrder(series, new_race) ==
    LET rs == Append(series.races, new_race)
    IN  Values(StableSortLex([i \in 1..Len(rs) |->
            [k |-> <<rs[i].date>> \o PyTimeKey(rs[i].start_time), v |-> rs[i]]]))

\* new_race = series_obj['races'][-1]; new_race_id = new_race.get('race_id')
new_race_id(series, new_race) ==
    Last(renumber_races([series EXCEPT !.races = Append(@, new_race)]).races).race_id

\* the id renumber_races gives the race that was appended
AddedRaceId(series, new_race) ==
    LET at == CHOOSE i \in 1..(Len(series.races) + 1) :
                  AppendedOrder(series, new_race)[i].race_id = <<>>
    IN  renumber_races([series EXCEPT !.races = Append(@, new_race)]).races[at].race_id

CreateLoaded(db, p, store) ==
    IF UnknownCompetitor(db, p) THEN Response(400, db)
    ELSE IF p.series_id = None \/ p.date = None THEN Response(400, db)
    ELSE IF p.series_id[1] \notin SeriesNames THEN Response(400, db)
    ELSE Persist(db, CreateSeasons(store.seasons, NewRace(p)))

\* update_race('__new__') up to and including save_data
create_race_saved(db, p) == CreateLoaded(db, p, load_data(db.series, db.competitors, db.races))

IdsOf(entrants_list) == {entrants_list[i].competitor_id : i \in 1..Len(entrants_list)}

\* existing entrants take the finish time the payload gives them
UpdatedEntrants(entrants_list, ft_map) ==
    [i \in 1..Len(entrants_list) |->
        IF entrants_list[i].competitor_id \in DOMAIN ft_map
        THEN [entrants_list[i] EXCEPT !.finish_time = ft_map[entrants_list[i].competitor_id]]
        ELSE entrants_list[i]]

\* competitors of the payload that are not entrants yet and have a finish time
NewFinishers(finish_times, ft_map, existing) ==
    SelectSeq(FirstKeys(finish_times),
              LAMBDA cid : cid # 0 /\ cid \notin existing /\ Truthy(ft_map[cid]))

\* their rows: seeded with the starting handicap of the fleet
AddedFinish(new_finish, ft_map, fleet) ==
    [i \in 1..Len(new_finish) |->
        [competitor_id |-> new_finish[i],
         initial_handicap |->
             Some(fleet[CHOOSE j \in 1..Len(fleet) : fleet[j].competitor_id = new_finish[i]]
                      .starting_handicap_s_per_hr),
         finish_time |-> ft_map[new_finish[i]],
         handicap_override |-> None]]

\* competitors that only have an override in the payload
NewOverridden(handicap_overrides, ov_map, existing) ==
    SelectSeq(FirstKeys(handicap_overrides),
              LAMBDA cid : cid # 0 /\ cid \notin existing /\ ov_map[cid] # None)

AddedOverride(new_override, ov_map) ==
    [i \in 1..Len(new_override) |->
        [competitor_id |-> new_override[i],
         initial_handicap |-> ov_map[new_override[i]],
         finish_time |-> None,
         handicap_override |-> None]]

EditEntrantsWith(entrants_list, p, fleet, ft_map, ov_map, new_finish) ==
    apply_overrides(
        UpdatedEntrants(entrants_list, ft_map)
            \o AddedFinish(new_finish, ft_map, fleet)
            \o AddedOverride(
                   NewOverridden(p.handicap_overrides, ov_map,
                       IdsOf(entrants_list) \cup {new_finish[i] : i \in 1..Len(new_finish)}),
                   ov_map),
        p.handicap_overrides)

\* the entrant list of an edited race (the block under "if finish_times or
\* handicap_overrides")
EditEntrants(entrants_list, p, fleet) ==
    EditEntrantsWith(entrants_list, p, fleet,
                     FtMap(p.finish_times), OvMap(p.handicap_overrides),
                     NewFinishers(p.finish_times, FtMap(p.finish_times), IdsOf(entrants_list)))

\* the series the edited race ends up in
TargetSeries(p, current_series_id) ==
    IF p.series_id # None THEN p.series_id[1] ELSE current_series_id

\* the field edits of update_race on the race object
EditedFields(race_obj, target_id, p) ==
    [race_obj EXCEPT
        !.series_id = target_id,
        !.date = IF p.date # None THEN p.date[1] ELSE @,
        !.start_time = IF p.start_time # None THEN p.start_time ELSE @]

EditedObject(race_obj, target_id, p, fleet) ==
    IF p.finish_times # <<>> \/ p.handicap_overrides # <<>>
    THEN [EditedFields(race_obj, target_id, p) EXCEPT
             !.competitors = EditEntrants(@, p, fleet)]
    ELSE EditedFields(race_obj, target_id, p)

\* the race in place, or moved to the end of the target series; the target
\* series and, after a move, the source series are renumbered
EditSeasons(seasons, race_id, current_series_id, edited) ==
    [i \in 1..Len(seasons) |->
        IF seasons[i].series_id = edited.series_id
        THEN renumber_races([seasons[i] EXCEPT !.races =
                 IF edited.series_id # current_series_id
                 THEN Append(@, edited)
                 ELSE [j \in 1..Len(@) |-> IF @[j].race_id = race_id THEN edited ELSE @[j]]])
        ELSE IF seasons[i].series_id = current_series_id
        THEN renumber_races([seasons[i] EXCEPT !.races =
                 SelectSeq(@, LAMBDA r : r.race_id # race_id)])
        ELSE seasons[i]]

EditFound(db, race_id, p, store, found) ==
    IF TargetSeries(p, found.series_id) \notin SeriesNames THEN Response(400, db)
    ELSE Persist(db, EditSeasons(store.seasons, race_id, found.series_id,
                     EditedObject(found.race, TargetSeries(p, found.series_id), p,
                                  store.fleet)))

EditLoaded(db, race_id, p, store) ==
    IF UnknownCompetitor(db, p) THEN Response(400, db)
    ELSE IF FindRace(store.seasons, race_id) = <<>> THEN Response(404, db)
    ELSE EditFound(db, race_id, p, store, FindRace(store.seasons, race_id)[1])

\* update_race(race_id) for an existing race, up to and including save_data
edit_race_saved(db, race_id, p) ==
    EditLoaded(db, race_id, p, load_data(db.series, db.competitors, db.races))

\* POST /api/races/<race_id>; race_id = None stands for '__new__'
update_race(db, race_id, p) ==
    ThenRecalculate(IF race_id = None THEN create_race_saved(db, p)
                    ELSE edit_race_saved(db, race_id[1], p))

DeleteSeasons(seasons, race_id) ==
    [i \in 1..Len(seasons) |->
        IF \E j \in 1..Len(seasons[i].races) : seasons[i].races[j].race_id = race_id
        THEN renumber_races([seasons[i] EXCEPT !.races =
                 SelectSeq(@, LAMBDA r : r.race_id # race_id)])
        ELSE seasons[i]]

DeleteLoaded(db, race_id, store) ==
    IF FindRace(store.seasons, race_id) = <<>> THEN Response(404, db)
    ELSE Persist(db, DeleteSeasons(store.seasons, race_id))

\* DELETE /api/races/<race_id>: the handler ends with the save
delete_race(db, race_id) == DeleteLoaded(db, race_id, load_data(db.series, db.competitors, db.races))

\* the row set_fleet writes for a listed competitor (the last item of an id wins)
FleetRow(comps, cid) ==
    LET c == comps[CHOOSE i \in 1..Len(comps) :
                      /\ comps[i].competitor_id = cid
                      /\ \A j \in (i + 1)..Len(comps) : comps[j].competitor_id # cid]
    IN  [starting_handicap_s_per_hr |-> Some(OrZero(c.starting_handicap_s_per_hr)),
         current_handicap_s_per_hr |->
             IF c.current_handicap_s_per_hr # None
             THEN c.current_handicap_s_per_hr
             ELSE Some(OrZero(c.starting_handicap_s_per_hr))]

\* competitors left out of the list that race results refer to
Protected(db, listed) ==
    {cid \in DOMAIN db.competitors \ listed :
        \E rid \in DOMAIN db.races : cid \in DOMAIN db.races[rid].competitors}

\* set_fleet: upsert of the listed competitors; a competitor left out is
\* deleted unless race results refer to it (then nothing is written)
set_fleet(db, comps) ==
    IF Protected(db, IdsOf(comps)) # {} THEN Response(500, db)
    ELSE Response(200, [db EXCEPT !.competitors =
                           [cid \in IdsOf(comps) |-> FleetRow(comps, cid)]])

\* the payload as update_fleet normalises it: current defaults to starting
NormalizedFleet(comps) ==
    [i \in 1..Len(comps) |->
        [competitor_id |-> comps[i].competitor_id,
         starting_handicap_s_per_hr |-> comps[i].starting_handicap_s_per_hr,
         current_handicap_s_per_hr |->
             IF comps[i].current_handicap_s_per_hr # None
             THEN comps[i].current_handicap_s_per_hr
             ELSE comps[i].starting_handicap_s_per_hr]]

\* POST /api/fleet; comps is the list under "competitors"
update_fleet(db, comps) == ThenRecalculate(set_fleet(db, NormalizedFleet(comps)))

\* replace_race_results: the rows of one race are deleted and inserted anew;
\* the INSERT names no initial_handicap column
RECURSIVE ReplaceEntrants(_)
ReplaceEntrants(entrants) ==
    IF entrants = <<>> THEN EmptyMap
    ELSE Put(ReplaceEntrants(Front(entrants)), Last(entrants).competitor_id,
             [initial_handicap |-> None,
              finish_time |-> SaveFinish(Last(entrants).finish_time),
              handicap_override |-> Last(entrants).handicap_override])

replace_race_results(db, race_id, entrants) ==
    [db EXCEPT !.races[race_id].competitors = ReplaceEntrants(entrants)]

-----------------------------------------------------------------------------
(* Forward-only recalculation: app/routes.py recalculate_handicaps_from *)

\* the seed of one entrant: the override, else the handicap revised earlier in
\* this pass, else the stored initial_handicap (which may be NULL)
FromSeed(ent, revised_latest) ==
    IF ent.handicap_override # None THEN ent.handicap_override
    ELSE IF ent.competitor_id \in DOMAIN revised_latest
    THEN Some(revised_latest[ent.competitor_id])
    ELSE ent.initial_handicap

\* seeds_for_race: the entrants that have a seed
SeedsForRace(ents, revised_latest) ==
    [cid \in {ents[i].competitor_id :
                 i \in {k \in 1..Len(ents) : FromSeed(ents[k], revised_latest) # None}} |->
        FromSeed(ents[CHOOSE i \in 1..Len(ents) : ents[i].competitor_id = cid],
                 revised_latest)[1]]

FromScored(st, race, calc_entries) ==
    IF calc_entries # <<>> /\ ScoringRaises(calc_entries)
    THEN [st EXCEPT !.raised = "TypeError"]
    ELSE [raised |-> "",
          revised_latest |->
              IF calc_entries = <<>> THEN st.revised_latest
              ELSE FeedForward(st.revised_latest, calculate_race_results(calc_entries)),
          pre_by_race |->
              IF DOMAIN SeedsForRace(race.competitors, st.revised_latest) # {}
              THEN Put(st.pre_by_race, race.race_id,
                       SeedsForRace(race.competitors, st.revised_latest))
              ELSE st.pre_by_race]

\* one iteration of the loop over forward_ids
FromRace(st, race) ==
    IF st.raised # "" THEN st
    ELSE FromScored(st, race,
             [i \in 1..Len(race.competitors) |->
                 CalcEntry(race.competitors[i],
                           OrZero(parse_hms(race.start_time)),
                           FromSeed(race.competitors[i], st.revised_latest))])

RECURSIVE FromLoop(_)
FromLoop(race_list) ==
    IF race_list = <<>>
    THEN [raised |-> "", revised_latest |-> EmptyMap, pre_by_race |-> EmptyMap]
    ELSE FromRace(FromLoop(Front(race_list)), Last(race_list))

\* forward_ids = all_ids[start_idx:]
ForwardIds(all_ids, start_race_id) ==
    SubSeq(all_ids, CHOOSE i \in 1..Len(all_ids) : all_ids[i] = start_race_id, Len(all_ids))

\* an exception leaves the store as it was
FromWrite(db, done) ==
    IF done.raised # "" THEN [raised |-> done.raised, db |-> db]
    ELSE [raised |-> "",
          db |-> apply_recalculated_handicaps(db, done.pre_by_race, done.revised_latest)]

\* the outcome of recalculate_handicaps_from(start_race_id) on db: the
\* exception that leaves the function, if any, and the store
recalculate_handicaps_from(db, start_race_id) ==
    IF start_race_id \notin DOMAIN db.races
    THEN [raised |-> "NameError", db |-> db]
    ELSE FromWrite(db, FromLoop(RaceList(db.races,
                           ForwardIds(get_races(db.races), start_race_id))))

-----------------------------------------------------------------------------
(* Specification of the recalculation as a function of the store *)

MaxRaces == 3        \* most races in a drawn store
MaxTrail == 2        \* most calls made on a drawn store

Dates == {1, 2}
StartTime == Hms(10, 0, 0)
FinishFast == Hms(10, 54, 0)
FinishSlow == Hms(11, 0, 0)

\* the override an officer types in
OverrideValue == 20

\* a value left in initial_handicap / current_handicap_s_per_hr by an earlier
\* state of the store (a race deleted since, a roster edited since)
StaleValue == 7

\* starting handicaps of the roster
Rosters == { (1 :> 5 @@ 2 :> 10), (1 :> 10 @@ 2 :> 0) }

\* what the row of one competitor in one race holds besides its seed:
\* no row at all, or a finish time (NULL when the boat did not finish) and an
\* optional override
Absent == [entered |-> FALSE, finish_time |-> None, handicap_override |-> None]
Row(finish_time, handicap_override) ==
    [entered |-> TRUE, finish_time |-> finish_time, handicap_override |-> handicap_override]

RowChoices ==
    (1 :> { Absent, Row(Some(FinishFast), None), Row(None, None),
            Row(Some(FinishFast), Some(OverrideValue)) }
     @@
     2 :> { Absent, Row(Some(FinishSlow), None) })

\* a race object as the handlers hold it before it has an id
RaceObject(series_id, date, start_time, rows, initial) ==
    LET ids == Ascending({cid \in DOMAIN rows : rows[cid].entered})
    IN  [race_id |-> <<>>,
         series_id |-> series_id,
         date |-> date,
         start_time |-> start_time,
         race_no |-> 0,
         competitors |-> [i \in 1..Len(ids) |->
             [competitor_id |-> ids[i],
              initial_handicap |-> initial,
              finish_time |-> rows[ids[i]].finish_time,
              handicap_override |-> rows[ids[i]].handicap_override]]]

\* the rows of the tables for a list of race objects: each series numbered by
\* renumber_races and written by save_data
StoredRaces(series_rows, objects) ==
    LET names == Ascending(SeriesNames)
        seasons == [i \in 1..Len(names) |->
                       renumber_races([series_id |-> names[i],
                                       name |-> series_rows[names[i]].name,
                                       races |-> SelectSeq(objects,
                                           LAMBDA r : r.series_id = names[i])])]
    IN  SaveRaces(DocRaces(seasons))

Db == [competitors |-> competitors, races |-> races, series |-> series_table]

Call(op, arg) == [op |-> op, arg |-> arg]

InitRecalc ==
    /\ series_table = DistinctNames
    /\ scoring = LoadScoring(ClubSettings)
    /\ \E roster \in Rosters, stale \in {None, Some(StaleValue)} :
         /\ competitors = [cid \in Cids |->
                [starting_handicap_s_per_hr |-> Some(roster[cid]),
                 current_handicap_s_per_hr |->
                     IF stale = None THEN Some(roster[cid]) ELSE stale]]
         /\ \E n \in 0..MaxRaces :
              \E ser \in [1..n -> SeriesNames], day \in [1..n -> Dates] :
                \E r1 \in [1..n -> RowChoices[1]], r2 \in [1..n -> RowChoices[2]] :
                  \* objects listed by series and date (any order among equals)
                  /\ \A i \in 1..(n - 1) :
                        LexLeq(<<ser[i], day[i]>>, <<ser[i + 1], day[i + 1]>>)
                  /\ races = StoredRaces(DistinctNames, [i \in 1..n |->
                              RaceObject(ser[i], day[i], Some(StartTime),
                                         (1 :> r1[i] @@ 2 :> r2[i]), stale)])
    /\ entries = <<>>
    /\ results = <<>>
    /\ table = <<>>
    /\ looked = <<>>
    /\ baseline = <<>>
    /\ mode = ""
    /\ standings = <<>>
    /\ processed = <<>>
    /\ settings_row = <<>>
    /\ cache = EmptyCache
    /\ returned = <<>>
    /\ inflight = <<>>
    /\ trail = <<>>
    /\ lastOp = "init"

\* recalculate_handicaps(), as the application runs it when it starts
Recalculate ==
    /\ Len(trail) < MaxTrail
    /\ \E after \in {recalculate_handicaps(Db)} :
         /\ competitors' = after.competitors
         /\ races' = after.races
    /\ processed' = get_races(races)
    /\ baseline' = Db
    /\ lastOp' = "recalculate_handicaps"
    /\ trail' = Append(trail, Call("recalculate_handicaps", None))
    /\ UNCHANGED <<settings_row, cache, returned, inflight, series_table, mode, standings, scoring, entries, results, table, looked>>

NextRecalc == Recalculate

SpecRecalc == InitRecalc /\ [][NextRecalc]_vars

-----------------------------------------------------------------------------
(* Specification of the recalculation with every source of the race order *)

MaxOrdered == 3      \* most races in a store whose order is taken

InitOrder ==
    /\ series_table = DistinctNames
    /\ scoring = LoadScoring(ClubSettings)
    /\ \E roster \in Rosters :
         /\ competitors = [cid \in Cids |->
                [starting_handicap_s_per_hr |-> Some(roster[cid]),
                 current_handicap_s_per_hr |-> Some(roster[cid])]]
         /\ \E n \in 1..MaxOrdered :
              \E ser \in [1..n -> SeriesNames], day \in [1..n -> Dates] :
                \E r1 \in [1..n -> {Absent, Row(Some(FinishFast), None)}] :
                  /\ \A i \in 1..(n - 1) :
                        LexLeq(<<ser[i], day[i]>>, <<ser[i + 1], day[i + 1]>>)
                  /\ races = StoredRaces(DistinctNames, [i \in 1..n |->
                              RaceObject(ser[i], day[i], Some(StartTime),
                                         (1 :> r1[i] @@ 2 :> Row(Some(FinishSlow), None)),
                                         None)])
    /\ entries = <<>>
    /\ results = <<>>
    /\ table = <<>>
    /\ looked = <<>>
    /\ baseline = <<>>
    /\ mode = ""
    /\ standings = <<>>
    /\ processed = <<>>
    /\ settings_row = <<>>
    /\ cache = EmptyCache
    /\ returned = <<>>
    /\ inflight = <<>>
    /\ trail = <<>>
    /\ lastOp = "init"

\* recalculate_handicaps() while datastore_pg.get_races fails
RecalculateFallback ==
    /\ Len(trail) < MaxTrail
    /\ \E source \in {"list_all_races", "sort"} :
       \E race_ids \in ProcessingOrders(Db, source) :
       \E after \in {recalculate_handicaps_in(Db, race_ids)} :
          /\ competitors' = after.competitors
          /\ races' = after.races
          /\ processed' = race_ids
          /\ trail' = Append(trail, Call("recalculate_handicaps", Some(source)))
    /\ baseline' = Db
    /\ lastOp' = "recalculate_handicaps"
    /\ UNCHANGED <<settings_row, cache, returned, inflight, series_table, mode, standings, scoring, entries, results, table, looked>>

NextOrder ==
    \/ Recalculate
    \/ RecalculateFallback

SpecOrder == InitOrder /\ [][NextOrder]_vars

-----------------------------------------------------------------------------
(* Specification of the recalculation on a store that keeps a finish time   *)
(* as the text it was given (load_data of the in-memory store of the tests; *)
(* _time_to_str returns str(val) for a value that is not a time)            *)

MaxKept == 2         \* most races in a store that keeps the text

\* the rows of competitor 2: as above, or a finish time that does not parse
KeptRowChoices == RowChoices[2] \cup { Row(Some(Malformed), None) }

InitKept ==
    /\ series_table = DistinctNames
    /\ scoring = LoadScoring(ClubSettings)
    /\ \E roster \in Rosters :
         /\ competitors = [cid \in Cids |->
                [starting_handicap_s_per_hr |-> Some(roster[cid]),
                 current_handicap_s_per_hr |-> Some(roster[cid])]]
         /\ \E n \in 1..MaxKept :
              \E ser \in [1..n -> SeriesNames], day \in [1..n -> Dates] :
                \E r1 \in [1..n -> RowChoices[1]], r2 \in [1..n -> KeptRowChoices] :
                  /\ \A i \in 1..(n - 1) :
                        LexLeq(<<ser[i], day[i]>>, <<ser[i + 1], day[i + 1]>>)
                  /\ races = StoredRaces(DistinctNames, [i \in 1..n |->
                              RaceObject(ser[i], day[i], Some(StartTime),
                                         (1 :> r1[i] @@ 2 :> r2[i]), None)])
    /\ entries = <<>>
    /\ results = <<>>
    /\ table = <<>>
    /\ looked = <<>>
    /\ baseline = <<>>
    /\ mode = ""
    /\ standings = <<>>
    /\ processed = <<>>
    /\ settings_row = <<>>
    /\ cache = EmptyCache
    /\ returned = <<>>
    /\ inflight = <<>>
    /\ trail = <<>>
    /\ lastOp = "init"

\* recalculate_handicaps() on the kept store
RecalculateKept ==
    /\ Len(trail) < MaxTrail
    /\ \E out \in {recalculate_handicaps_outcome(Db)} :
         /\ competitors' = out.db.competitors
         /\ races' = out.db.races
         /\ lastOp' = IF out.raised = "" THEN "recalculate_handicaps" ELSE out.raised
         /\ processed' = IF out.raised = "" THEN get_races(races) ELSE <<>>
    /\ baseline' = Db
    /\ trail' = Append(trail, Call("recalculate_handicaps", None))
    /\ UNCHANGED <<settings_row, cache, returned, inflight, series_table, mode, standings, scoring, entries, results, table, looked>>

NextKept == RecalculateKept

SpecKept == InitKept /\ [][NextKept]_vars

-----------------------------------------------------------------------------
(* Specification of the API: requests served one at a time on the store *)

MaxStored == 2       \* most races the store holds at a time

\* bodies of a request that creates a race; the one without start_time is
\* refused by the store
CreatePayloads ==
    { Payload(Some(ser), Some(day), start, finish, <<>>) :
        ser \in SeriesNames, day \in Dates, start \in {Some(StartTime), None},
        finish \in { <<FinishItem(1, Some(FinishFast))>>,
                     <<FinishItem(1, Some(FinishFast)), FinishItem(2, Some(FinishSlow))>> } }

\* bodies of a request that edits the entrants of a race
EntrantPayloads ==
    { Payload(None, None, None, <<FinishItem(2, Some(FinishSlow))>>, <<>>),
      Payload(None, None, None, <<FinishItem(1, Some(Blank))>>, <<>>),
      Payload(None, None, None, <<FinishItem(1, Some(FinishFast))>>, <<>>),
      Payload(None, None, None, <<>>, <<OverrideItem(1, Some(OverrideValue))>>),
      Payload(None, None, None, <<>>, <<OverrideItem(1, None)>>) }

\* bodies of a request that edits a race in place
EditPayloads ==
    EntrantPayloads \cup { Payload(None, Some(day), None, <<>>, <<>>) : day \in Dates }

\* the body of POST /api/fleet for a roster
FleetPayload(roster) ==
    LET ids == Ascending(DOMAIN roster)
    IN  [i \in 1..Len(ids) |->
            [competitor_id |-> ids[i],
             starting_handicap_s_per_hr |-> Some(roster[ids[i]]),
             current_handicap_s_per_hr |-> None]]

Init ==
    /\ series_table = DistinctNames
    /\ scoring = LoadScoring(ClubSettings)
    /\ \E roster \in Rosters :
          competitors = [cid \in Cids |->
              [starting_handicap_s_per_hr |-> Some(roster[cid]),
               current_handicap_s_per_hr |-> Some(roster[cid])]]
    /\ races = EmptyMap
    /\ entries = <<>>
    /\ results = <<>>
    /\ table = <<>>
    /\ looked = <<>>
    /\ baseline = <<>>
    /\ mode = ""
    /\ standings = <<>>
    /\ processed = <<>>
    /\ settings_row = <<>>
    /\ cache = EmptyCache
    /\ returned = <<>>
    /\ inflight = <<>>
    /\ trail = <<>>
    /\ lastOp = "init"

MaxServed == 3       \* most requests served in a run that logs them

\* a logged run has requests left to serve
Serving == Len(trail) <= MaxServed

\* a run that starts from create_app logs the requests it serves in trail; a
\* run that starts with an empty trail keeps no log
Logged(op) == IF trail = <<>> THEN trail ELSE Append(trail, Call(op, None))

\* the response of a handler: a refused request leaves the store as it was;
\* busts tells whether the handler ends with _cache_clear_all(), which an
\* aborted request does not reach
Respond(op, response, busts) ==
    /\ competitors' = response.db.competitors
    /\ races' = response.db.races
    /\ lastOp' = IF response.status = 200 THEN op ELSE lastOp
    /\ cache' = IF busts /\ response.status = 200 THEN EmptyCache ELSE cache
    /\ trail' = Logged(op)
    /\ UNCHANGED <<settings_row, returned, inflight, series_table, processed, mode, standings, scoring, entries, results, table, looked, baseline>>

CreateRace ==
    /\ Serving
    /\ Cardinality(DOMAIN races) < MaxStored
    /\ \E p \in CreatePayloads :
          \E response \in {update_race(Db, None, p)} : Respond("update_race", response, FALSE)

EditRace ==
    /\ Serving
    /\ \E rid \in DOMAIN races, p \in EditPayloads :
        \E response \in {update_race(Db, Some(rid), p)} : Respond("update_race", response, TRUE)

MoveRace ==
    /\ Serving
    /\ \E rid \in DOMAIN races, ser \in SeriesNames :
        /\ ser # races[rid].series_id
        /\ \E response \in {update_race(Db, Some(rid), Payload(Some(ser), None, None, <<>>, <<>>))} :
              Respond("update_race", response, TRUE)

DeleteRace ==
    /\ Serving
    /\ \E rid \in DOMAIN races :
        \E response \in {delete_race(Db, rid)} : Respond("delete_race", response, TRUE)

UpdateFleet ==
    /\ Serving
    /\ \E roster \in Rosters :
        \E response \in {update_fleet(Db, FleetPayload(roster))} :
            Respond("update_fleet", response, TRUE)

Next ==
    \/ CreateRace
    \/ EditRace
    \/ MoveRace
    \/ DeleteRace
    \/ UpdateFleet

Spec == Init /\ [][Next]_vars

-----------------------------------------------------------------------------
(* Specification of the API on two seasons: series 1 and series 2 carry the *)
(* same name in consecutive seasons, and a date is any day of either year   *)
(* (update_race takes the year of the date for a new series only)           *)

InitSeasons ==
    /\ series_table = ReusedName
    /\ scoring = LoadScoring(ClubSettings)
    /\ \E roster \in Rosters :
          competitors = [cid \in Cids |->
              [starting_handicap_s_per_hr |-> Some(roster[cid]),
               current_handicap_s_per_hr |-> Some(roster[cid])]]
    /\ races = EmptyMap
    /\ entries = <<>>
    /\ results = <<>>
    /\ table = <<>>
    /\ looked = <<>>
    /\ baseline = <<>>
    /\ mode = ""
    /\ standings = <<>>
    /\ processed = <<>>
    /\ settings_row = <<>>
    /\ cache = EmptyCache
    /\ returned = <<>>
    /\ inflight = <<>>
    /\ trail = <<>>
    /\ lastOp = "init"

NextSeasons ==
    \/ CreateRace
    \/ EditRace
    \/ MoveRace
    \/ DeleteRace

SpecSeasons == InitSeasons /\ [][NextSeasons]_vars

-----------------------------------------------------------------------------
(* Specification of the API on a roster with an unrated competitor: the row *)
(* of competitor 2 has no handicap (NULL columns, as migrate_fleet inserts  *)
(* a competitor whose record carries none)                                  *)

InitUnrated ==
    /\ series_table = DistinctNames
    /\ scoring = LoadScoring(ClubSettings)
    /\ \E roster \in Rosters :
          competitors = [cid \in Cids |->
              IF cid = 2
              THEN [starting_handicap_s_per_hr |-> None,
                    current_handicap_s_per_hr |-> None]
              ELSE [starting_handicap_s_per_hr |-> Some(roster[cid]),
                    current_handicap_s_per_hr |-> Some(roster[cid])]]
    /\ races = EmptyMap
    /\ entries = <<>>
    /\ results = <<>>
    /\ table = <<>>
    /\ looked = <<>>
    /\ baseline = <<>>
    /\ mode = ""
    /\ standings = <<>>
    /\ processed = <<>>
    /\ settings_row = <<>>
    /\ cache = EmptyCache
    /\ returned = <<>>
    /\ inflight = <<>>
    /\ trail = <<>>
    /\ lastOp = "init"

NextUnrated ==
    \/ CreateRace
    \/ EditRace

SpecUnrated == InitUnrated /\ [][NextUnrated]_vars

-----------------------------------------------------------------------------
(* Specification of the forward-only recalculation as a function of the     *)
(* store: a recalculated store, one edit of the entrants of a race X        *)
(* persisted, then the call                                                 *)

MaxEdited == 2       \* most races in a store that is edited

\* entrant lists handed to replace_race_results
ReplaceLists ==
    { <<>>,
      <<[competitor_id |-> 1, finish_time |-> Some(FinishFast), handicap_override |-> None]>>,
      <<[competitor_id |-> 2, finish_time |-> Some(FinishSlow), handicap_override |-> None]>>,
      <<[competitor_id |-> 1, finish_time |-> Some(FinishFast), handicap_override |-> None],
        [competitor_id |-> 2, finish_time |-> Some(FinishSlow), handicap_override |-> None]>> }

InitFrom ==
    /\ series_table = DistinctNames
    /\ scoring = LoadScoring(ClubSettings)
    /\ \E roster \in Rosters :
       \E n \in 1..MaxEdited :
       \E ser \in [1..n -> SeriesNames], day \in [1..n -> Dates] :
       \E r1 \in [1..n -> RowChoices[1]], r2 \in [1..n -> RowChoices[2]] :
          /\ \A i \in 1..(n - 1) :
                LexLeq(<<ser[i], day[i]>>, <<ser[i + 1], day[i + 1]>>)
          /\ \E drawn \in {[series |-> DistinctNames,
                           competitors |->
                               [cid \in Cids |->
                                   [starting_handicap_s_per_hr |-> Some(roster[cid]),
                                    current_handicap_s_per_hr |-> Some(roster[cid])]],
                           races |->
                               StoredRaces(DistinctNames, [i \in 1..n |->
                                   RaceObject(ser[i], day[i], Some(StartTime),
                                              (1 :> r1[i] @@ 2 :> r2[i]), None)])]} :
             \E full \in {recalculate_handicaps(drawn)} :
             \E X \in DOMAIN full.races :
             \E edited \in {edit_race_saved(full, X, p).db : p \in EntrantPayloads}
                           \cup {replace_race_results(full, X, es) : es \in ReplaceLists} :
                /\ edited # full
                /\ competitors = edited.competitors
                /\ races = edited.races
                /\ baseline = full
                /\ trail = <<Call("edit", Some(X))>>
    /\ mode = ""
    /\ standings = <<>>
    /\ processed = <<>>
    /\ settings_row = <<>>
    /\ cache = EmptyCache
    /\ returned = <<>>
    /\ inflight = <<>>
    /\ entries = <<>>
    /\ results = <<>>
    /\ table = <<>>
    /\ looked = <<>>
    /\ lastOp = "edit"

RecalculateFrom ==
    /\ Len(trail) < MaxTrail
    /\ \E rid \in DOMAIN races :
          /\ \E out \in {recalculate_handicaps_from(Db, rid)} :
                /\ competitors' = out.db.competitors
                /\ races' = out.db.races
                /\ lastOp' = IF out.raised = "" THEN "recalculate_handicaps_from"
                             ELSE out.raised
          /\ trail' = Append(trail, Call("recalculate_handicaps_from", Some(rid)))
    /\ baseline' = Db
    /\ UNCHANGED <<settings_row, cache, returned, inflight, series_table, processed, mode, standings, scoring, entries, results, table, looked>>

NextFrom ==
    \/ RecalculateFrom
    \/ Recalculate

SpecFrom == InitFrom /\ [][NextFrom]_vars

-----------------------------------------------------------------------------
(* Specification of the recalculation of a migrated store: the migration    *)
(* copies the handicaps of the fleet as it finds them, a missing one as NULL *)

MaxMigrated == 2     \* most races in a migrated store

InitMigrated ==
    /\ series_table = DistinctNames
    /\ scoring = LoadScoring(ClubSettings)
    /\ \E roster \in Rosters, rated \in BOOLEAN :
         /\ competitors = [cid \in Cids |->
                IF cid = 2 /\ ~rated
                THEN [starting_handicap_s_per_hr |-> None,
                      current_handicap_s_per_hr |-> None]
                ELSE [starting_handicap_s_per_hr |-> Some(roster[cid]),
                      current_handicap_s_per_hr |-> Some(roster[cid])]]
         /\ \E n \in 1..MaxMigrated :
              \E ser \in [1..n -> SeriesNames], day \in [1..n -> Dates] :
                \E r1 \in [1..n -> RowChoices[1]] :
                  /\ \A i \in 1..(n - 1) :
                        LexLeq(<<ser[i], day[i]>>, <<ser[i + 1], day[i + 1]>>)
                  /\ races = StoredRaces(DistinctNames, [i \in 1..n |->
                              RaceObject(ser[i], day[i], Some(StartTime),
                                         (1 :> r1[i] @@ 2 :> Row(Some(FinishSlow), None)),
                                         None)])
    /\ entries = <<>>
    /\ results = <<>>
    /\ table = <<>>
    /\ looked = <<>>
    /\ baseline = <<>>
    /\ mode = ""
    /\ standings = <<>>
    /\ processed = <<>>
    /\ settings_row = <<>>
    /\ cache = EmptyCache
    /\ returned = <<>>
    /\ inflight = <<>>
    /\ trail = <<>>
    /\ lastOp = "init"

NextMigrated == Recalculate

SpecMigrated == InitMigrated /\ [][NextMigrated]_vars

-----------------------------------------------------------------------------
(* Specification of the forward recalculation asked for a race the store    *)
(* does not hold                                                            *)

\* the race ids renumber_races can give
RaceIds == {<<date, name, idx>> : date \in Dates, name \in SeriesNames, idx \in 1..MaxRaces}

\* recalculate_handicaps_from(start_race_id) with an id that all_ids.index
\* does not find
RecalculateFromMissing ==
    /\ Len(trail) < MaxTrail
    /\ \E rid \in RaceIds \ DOMAIN races :
          /\ \E out \in {recalculate_handicaps_from(Db, rid)} :
                /\ competitors' = out.db.competitors
                /\ races' = out.db.races
                /\ lastOp' = IF out.raised = "" THEN "recalculate_handicaps_from"
                             ELSE out.raised
          /\ trail' = Append(trail, Call("recalculate_handicaps_from", Some(rid)))
    /\ baseline' = Db
    /\ UNCHANGED <<settings_row, cache, returned, inflight, series_table, processed, mode, standings, scoring, entries, results, table, looked>>

NextMissing ==
    \/ RecalculateFromMissing
    \/ Recalculate

SpecMissing == InitOrder /\ [][NextMissing]_vars

-----------------------------------------------------------------------------
(* Properties of the scorer and of the lookup tables *)

SetMax(S) == CHOOSE x \in S : \A y \in S : y <= x
SetMin(S) == CHOOSE x \in S : \A y \in S : x <= y

Scored == lastOp = "calculate_race_results"

\* indices of the results that were ranked (the finishers)
Ranked == {j \in 1..Len(results) : results[j].handicap_position # None}

\* C7: every entry with status DNF, DNS or DSQ (with or without a finish time)
\* or with no finish time comes out with revised_handicap equal to its
\* initial_handicap and with 0.0 points, whatever the other entries are.
NonFinisherNeutrality ==
    Scored =>
        \A i \in 1..Len(entries) :
            (entries[i].status \in {"DNF", "DNS", "DSQ"} \/ entries[i].finish = None) =>
                \E j \in 1..Len(results) :
                    /\ results[j].competitor_id = entries[i].competitor_id
                    /\ results[j].revised_handicap = entries[i].initial_handicap
                    /\ results[j].points_x10 = 0

\* a disqualified boat that has a finish time, scored next to a boat whose
\* handicap did move
NonFinisherNeutralityWitness ==
    /\ Scored
    /\ \E i \in 1..Len(entries) : entries[i].status = "DSQ" /\ entries[i].finish # None
    /\ \E j \in Ranked : results[j].actual_delta # 0

\* C8: finishers are listed by ascending adjusted time and each one's
\* handicap_position is the 1-based index of the first finisher with the same
\* adjusted time: equal times share a position, a strictly greater time gets
\* its own index (the tied places are skipped).
RankTieConsistency ==
    Scored =>
        /\ \A j \in Ranked : \A k \in 1..j : k \in Ranked
        /\ \A j, k \in Ranked : j < k => results[j].adjusted_x3600 <= results[k].adjusted_x3600
        /\ \A j \in Ranked :
              results[j].handicap_position =
                  Some(SetMin({k \in Ranked : results[k].adjusted_x3600 = results[j].adjusted_x3600}))

\* two boats tied on adjusted time in first place, the next boat third
RankTieConsistencyWitness ==
    /\ Scored
    /\ Len(results) >= 3
    /\ results[1].handicap_position = Some(1)
    /\ results[2].handicap_position = Some(1)
    /\ results[1].elapsed_seconds # results[2].elapsed_seconds
    /\ results[3].handicap_position = Some(3)

\* a is x10 / 10 rounded to the nearest integer, halves to the even neighbour
IsRoundedTenths(a, x10) ==
    /\ 10 * a - x10 \in -5..5
    /\ (10 * a - x10 \in {-5, 5}) => a % 2 = 0

\* C9: with N the number of entries that finished (status not DNF/DNS/DSQ and
\* a finish time), every finisher at handicap position p has actual_delta =
\* round(handicapDelta(p) * fleetScalingFactor(N)) and revised_handicap =
\* initial_handicap + actual_delta; with the default tables, five finishers
\* on equal handicaps and distinct times get -18, -12, -6, 0, 6.
DeltaScaling ==
    Scored =>
        LET N == Cardinality({i \in 1..Len(entries) :
                     entries[i].status \notin {"DNF", "DNS", "DSQ"} /\ entries[i].finish # None})
        IN  /\ Cardinality(Ranked) = N
            /\ \A j \in Ranked :
                  /\ IsRoundedTenths(results[j].actual_delta,
                         full_delta(results[j].handicap_position[1]) * scaling_factor(N))
                  /\ results[j].revised_handicap =
                         Some(results[j].initial_handicap[1] + results[j].actual_delta)
            /\ ( /\ scoring = LoadScoring(DefaultSettings)
                 /\ N = 5
                 /\ \A j, k \in Ranked :
                       /\ results[j].initial_handicap = results[k].initial_handicap
                       /\ (j # k => results[j].finish # results[k].finish) )
               => [j \in 1..5 |-> results[j].actual_delta] = <<-18, -12, -6, 0, 6>>

\* the default tables, five finishers and at least one boat that retired
DeltaScalingWitness ==
    /\ Scored
    /\ scoring = LoadScoring(DefaultSettings)
    /\ Cardinality(Ranked) = 5
    /\ Len(results) > 5
    /\ results[1].actual_delta = -18
    /\ results[5].revised_handicap = Some(306)

\* C10: in each of the three tables a lookup of an integer key with an
\* explicit entry returns that entry's value (the last one if the list repeats
\* the key), a lookup of any other integer key returns the value of the
\* default_or_higher entry; with the default tables rank 11 gives delta 60
\* and fleet sizes 7 and 12 give factor 1.0.
LookupFallback ==
    looked # None =>
        LET k == looked[1].key
            Expected(items, got) ==
                LET explicit == {i \in 1..Len(items) : items[i].key.isint /\ items[i].key.n = k}
                    dflt == {i \in 1..Len(items) :
                                ~items[i].key.isint /\ items[i].key.s = "default_or_higher"}
                IN  /\ explicit # {} => got = items[SetMax(explicit)].value
                    /\ (explicit = {} /\ dflt # {}) => got = items[SetMax(dflt)].value
        IN  /\ Expected(table.handicap_delta_by_rank, looked[1].full_delta)
            /\ Expected(table.league_points_by_rank, looked[1].base_points)
            /\ Expected(table.fleet_size_factor, looked[1].scaling_factor)
            /\ (table = DefaultSettings /\ k = 11) => looked[1].full_delta = 60
            /\ (table = DefaultSettings /\ k \in {7, 12}) => looked[1].scaling_factor = 10

\* rank 11 looked up in the default tables, which stop at rank 10
LookupFallbackWitness ==
    /\ looked # None
    /\ table = DefaultSettings
    /\ looked[1].key = 11
    /\ looked[1].full_delta = 60

-----------------------------------------------------------------------------
(* Properties of the recalculation *)

Recalculated == lastOp = "recalculate_handicaps"

\* r1 comes before r2 in the global chronological order: by date, then start
\* time, then race id
Precedes(r1, r2) ==
    /\ r1 # r2
    /\ LexLeq(<<races[r1].date>> \o SqlTimeKey(races[r1].start_time) \o r1,
              <<races[r2].date>> \o SqlTimeKey(races[r2].start_time) \o r2)

EnteredBy(cid) == {rid \in DOMAIN races : cid \in DOMAIN races[rid].competitors}

\* r1 and r2 are consecutive among the races cid entered
ImmediatelyBefore(cid, r1, r2) ==
    /\ r1 \in EnteredBy(cid)
    /\ r2 \in EnteredBy(cid)
    /\ Precedes(r1, r2)
    /\ ~\E r \in EnteredBy(cid) : Precedes(r1, r) /\ Precedes(r, r2)

\* the stored rows of a race as entries of the scorer; seed(cid) is the
\* handicap each entry carries into the race
EntriesWith(rid, seed(_)) ==
    LET ids == Ascending(DOMAIN races[rid].competitors)
    IN  [i \in 1..Len(ids) |->
            Entry(ids[i],
                  OrZero(parse_hms(races[rid].start_time)),
                  parse_hms(races[rid].competitors[ids[i]].finish_time),
                  seed(ids[i]),
                  "None")]

StoredSeed(rid, cid) == races[rid].competitors[cid].initial_handicap
StoredEntries(rid) == EntriesWith(rid, LAMBDA cid : StoredSeed(rid, cid))

\* the result the scorer gives cid for the entries es
ResultOf(es, cid) ==
    LET res == calculate_race_results(es)
    IN  res[CHOOSE j \in 1..Len(res) : res[j].competitor_id = cid]

\* the revised handicap the scorer computes for cid from the stored rows of rid
\* is h
RevisedIs(rid, cid, h) ==
    /\ ~ScoringRaises(StoredEntries(rid))
    /\ ResultOf(StoredEntries(rid), cid).revised_handicap = h

\* C1: after recalculate_handicaps, for every competitor and every two races
\* R1, R2 the competitor entered with R1 immediately before R2 in the global
\* chronological order, an R2 row without handicap_override stores as
\* initial_handicap the revised_handicap the scorer computes for the
\* competitor in R1.
ForwardPropagation ==
    Recalculated =>
        \A cid \in Cids : \A r1, r2 \in EnteredBy(cid) :
            ( /\ ImmediatelyBefore(cid, r1, r2)
              /\ races[r2].competitors[cid].handicap_override = None )
            => RevisedIs(r1, cid, StoredSeed(r2, cid))

\* a competitor whose handicap moved in R1 and whose R2 row held another
\* value before the recalculation
ForwardPropagationWitness ==
    /\ Recalculated
    /\ \E cid \in Cids : \E r1, r2 \in EnteredBy(cid) :
          /\ ImmediatelyBefore(cid, r1, r2)
          /\ races[r2].competitors[cid].handicap_override = None
          /\ StoredSeed(r2, cid) # StoredSeed(r1, cid)
          /\ StoredSeed(r2, cid) # baseline.races[r2].competitors[cid].initial_handicap
          /\ StoredSeed(r2, cid) # competitors[cid].starting_handicap_s_per_hr

\* C2: after recalculate_handicaps, a row with handicap_override set stores
\* exactly the override as initial_handicap, and the competitor's next race
\* (without override) stores the override plus the actual delta the scorer
\* gives the competitor in the overridden race, whatever handicap the
\* competitor carried out of the races before it.
OverrideIsolation ==
    Recalculated =>
        \A cid \in Cids : \A r2 \in EnteredBy(cid) :
            LET override == races[r2].competitors[cid].handicap_override
                es == EntriesWith(r2, LAMBDA c : IF c = cid THEN override
                                                 ELSE StoredSeed(r2, c))
            IN  override # None =>
                  /\ StoredSeed(r2, cid) = override
                  /\ \A r3 \in EnteredBy(cid) :
                        ( /\ ImmediatelyBefore(cid, r2, r3)
                          /\ races[r3].competitors[cid].handicap_override = None )
                        => /\ ~ScoringRaises(es)
                           /\ StoredSeed(r3, cid) =
                                  Some(override[1] + ResultOf(es, cid).actual_delta)

\* R1, then R2 with an override that differs from the handicap carried out of
\* R1, then R3 seeded from the override and the delta of R2
OverrideIsolationWitness ==
    /\ Recalculated
    /\ \E cid \in Cids : \E r1, r2, r3 \in EnteredBy(cid) :
          /\ ImmediatelyBefore(cid, r1, r2)
          /\ ImmediatelyBefore(cid, r2, r3)
          /\ races[r2].competitors[cid].handicap_override = Some(OverrideValue)
          /\ races[r3].competitors[cid].handicap_override = None
          /\ ~RevisedIs(r1, cid, Some(OverrideValue))
          /\ StoredSeed(r3, cid) # Some(OverrideValue)
          /\ RevisedIs(r2, cid, StoredSeed(r3, cid))

\* the seeds and the current handicaps of a store
Handicaps(db) ==
    [initial_handicap |->
         [rid \in DOMAIN db.races |->
             [cid \in DOMAIN db.races[rid].competitors |->
                 db.races[rid].competitors[cid].initial_handicap]],
     current_handicap_s_per_hr |->
         [cid \in DOMAIN db.competitors |->
             db.competitors[cid].current_handicap_s_per_hr]]

RanTwice ==
    /\ Len(trail) >= 2
    /\ trail[Len(trail)].op = "recalculate_handicaps"
    /\ trail[Len(trail) - 1].op = "recalculate_handicaps"

\* C5: a second run of recalculate_handicaps, with nothing changed in between,
\* leaves every initial_handicap and every current_handicap_s_per_hr as the
\* first run left them.
Idempotence ==
    RanTwice => Handicaps(Db) = Handicaps(baseline)

\* two runs on a store with an override, in which a handicap has moved
IdempotenceWitness ==
    /\ RanTwice
    /\ \E rid \in DOMAIN races : \E cid \in DOMAIN races[rid].competitors :
          /\ races[rid].competitors[cid].handicap_override = None
          /\ StoredSeed(rid, cid) # competitors[cid].starting_handicap_s_per_hr
    /\ \E rid \in DOMAIN races : \E cid \in DOMAIN races[rid].competitors :
          races[rid].competitors[cid].handicap_override # None

\* the last race cid entered
IsLastRace(cid, rid) ==
    /\ rid \in EnteredBy(cid)
    /\ \A r \in EnteredBy(cid) : r = rid \/ Precedes(r, rid)

\* C6: after recalculate_handicaps every competitor's
\* current_handicap_s_per_hr is the revised handicap of the chronologically
\* last race they entered, and the starting_handicap_s_per_hr of a competitor
\* who entered no race.
CurrentHandicap ==
    Recalculated =>
        \A cid \in DOMAIN competitors :
            /\ EnteredBy(cid) = {} =>
                  competitors[cid].current_handicap_s_per_hr =
                      competitors[cid].starting_handicap_s_per_hr
            /\ \A rid \in EnteredBy(cid) :
                  IsLastRace(cid, rid) =>
                      RevisedIs(rid, cid, competitors[cid].current_handicap_s_per_hr)

\* one competitor came out of their last race on handicap 0 having started
\* the season on another, the other entered no race and had a stale current
\* handicap before the run
CurrentHandicapWitness ==
    /\ Recalculated
    /\ \E cid \in DOMAIN competitors :
          /\ EnteredBy(cid) # {}
          /\ competitors[cid].current_handicap_s_per_hr = Some(0)
          /\ competitors[cid].starting_handicap_s_per_hr # Some(0)
    /\ \E cid \in DOMAIN competitors :
          /\ EnteredBy(cid) = {}
          /\ baseline.competitors[cid].current_handicap_s_per_hr = Some(StaleValue)

-----------------------------------------------------------------------------
(* Properties of the persisted handicaps under the API and under the       *)
(* forward-only recalculation                                               *)

\* C3: in every state the store reaches through completed API operations
\* (create, edit, move, delete of a race, fleet update), every stored
\* initial_handicap equals the row's handicap_override when one is set, and
\* otherwise the revised handicap of the competitor's immediately preceding
\* race in the global chronological order, or the competitor's
\* starting_handicap_s_per_hr when the race is their first.
PersistedSeedConsistency ==
    \A rid \in DOMAIN races : \A cid \in DOMAIN races[rid].competitors :
        LET row == races[rid].competitors[cid]
            before == {r1 \in EnteredBy(cid) : ImmediatelyBefore(cid, r1, rid)}
        IN  IF row.handicap_override # None
            THEN row.initial_handicap = row.handicap_override
            ELSE IF before = {}
            THEN row.initial_handicap = competitors[cid].starting_handicap_s_per_hr
            ELSE /\ row.initial_handicap # None
                 /\ \A r1 \in before : RevisedIs(r1, cid, row.initial_handicap)

\* the race the store was edited in, and the call made after the edit
EditedRace == trail[1].arg[1]

EditedThenRecalculatedFrom ==
    /\ Len(trail) = 2
    /\ lastOp = "recalculate_handicaps_from"
    /\ trail[1].op = "edit"
    /\ trail[2] = Call("recalculate_handicaps_from", Some(EditedRace))

\* C4: on a store produced by a full recalculation and then edited in the
\* entrants of one race X, recalculate_handicaps_from(X) leaves in every row
\* of X and of every later race the initial_handicap, and for every competitor
\* the current_handicap_s_per_hr, that recalculate_handicaps leaves on the
\* same edited store.
ForwardOnlyEquivalence ==
    EditedThenRecalculatedFrom =>
        LET full == recalculate_handicaps(baseline)
        IN  /\ \A rid \in DOMAIN races :
                  (rid = EditedRace \/ Precedes(EditedRace, rid)) =>
                      \A cid \in DOMAIN races[rid].competitors :
                          StoredSeed(rid, cid) = full.races[rid].competitors[cid].initial_handicap
            /\ \A cid \in DOMAIN competitors :
                  competitors[cid].current_handicap_s_per_hr =
                      full.competitors[cid].current_handicap_s_per_hr

-----------------------------------------------------------------------------
(* Season totals of the scorer module: app/scoring.py                       *)
(* compute_traditional_standings                                            *)

\* res.get("traditional_points"), with the fall-backs for a result without it
TraditionalPointsOf(res, finisher_count) ==
    IF "traditional_points" \in DOMAIN res THEN res.traditional_points
    ELSE IF res.finish = None THEN finisher_count + 1
    ELSE 0

\* the running totals after the results of one race
RECURSIVE AddRace(_, _, _)
AddRace(totals, race, i) ==
    IF i = 0 THEN totals
    ELSE LET before == AddRace(totals, race, i - 1)
             finisher_count == Cardinality({k \in 1..Len(race) : race[k].finish # None})
             sailor == race[i].competitor_id
         IN  Put(before, sailor,
                 Get(before, sailor, 0) + TraditionalPointsOf(race[i], finisher_count))

RECURSIVE AddRaces(_, _)
AddRaces(rs, r) ==
    IF r = 0 THEN EmptyMap
    ELSE AddRace(AddRaces(rs, r - 1), rs[r], Len(rs[r]))

\* standings.sort(key=(total_points, sailor)) and the places 1..n
RankedTotals(totals) ==
    LET sorted == Values(StableSortLex(
                      [i \in 1..Cardinality(DOMAIN totals) |->
                          [k |-> <<totals[Ascending(DOMAIN totals)[i]], Ascending(DOMAIN totals)[i]>>,
                           v |-> Ascending(DOMAIN totals)[i]]]))
    IN  [i \in 1..Len(sorted) |->
            [sailor |-> sorted[i], total_points |-> totals[sorted[i]], place |-> i]]

compute_traditional_standings(rs) == RankedTotals(AddRaces(rs, Len(rs)))

-----------------------------------------------------------------------------
(* Specification of the season totals: two races of three boats, scored and *)
(* then added up                                                            *)

\* what a boat does in a race of the fixture: retires, or finishes after an
\* hour or a minute later
FixtureFinishes == {None, Some(3600), Some(3660)}

FixtureEntry(cid, start, elapsed) ==
    Entry(cid, start,
          IF elapsed = None THEN None ELSE Some(start + elapsed[1]),
          Some(300),
          IF elapsed = None THEN "DNF" ELSE "None")

InitTraditional ==
    /\ scoring = LoadScoring(ClubSettings)
    /\ \E start \in [1..2 -> ScoreStarts] :
       \E f \in [1..2 -> [1..3 -> FixtureFinishes]] :
          entries = [r \in 1..2 |-> [i \in 1..3 |-> FixtureEntry(i, start[r], f[r][i])]]
    /\ results = <<>>
    /\ lastOp = "init"
    /\ Idle

ScoreSeason ==
    /\ lastOp = "init"
    /\ \E scored \in {[r \in 1..Len(entries) |-> calculate_race_results(entries[r])]} :
          /\ results' = scored
          /\ standings' = compute_traditional_standings(scored)
    /\ lastOp' = "compute_traditional_standings"
    /\ UNCHANGED <<settings_row, cache, returned, inflight, series_table, processed, mode, scoring, entries, table, looked, competitors, races, baseline, trail>>

NextTraditional == ScoreSeason

SpecTraditional == InitTraditional /\ [][NextTraditional]_vars

-----------------------------------------------------------------------------
(* Season standings: app/routes.py _season_standings                        *)
(* Points are kept in tenths (points_x10), traditional points included.     *)

RECURSIVE SumSeq(_)
SumSeq(s) == IF s = <<>> THEN 0 ELSE SumSeq(Front(s)) + Last(s)

\* entrants_map.get(cid): the last entrant listed under the id
EntrantOf(race, cid) ==
    race.competitors[SetMaxOf({i \in 1..Len(race.competitors) :
                                  race.competitors[i].competitor_id = cid})]

\* the entry built for one roster competitor in one race; an absent competitor
\* gets starting_handicap_s_per_hr or current_handicap_s_per_hr or 0
SeasonEntry(info, race, start_seconds) ==
    IF \E i \in 1..Len(race.competitors) : race.competitors[i].competitor_id = info.competitor_id
    THEN Entry(info.competitor_id, start_seconds,
               parse_hms(EntrantOf(race, info.competitor_id).finish_time),
               EntrantOf(race, info.competitor_id).initial_handicap, "None")
    ELSE Entry(info.competitor_id, start_seconds, None,
               Some(IF info.starting_handicap_s_per_hr # 0
                    THEN info.starting_handicap_s_per_hr
                    ELSE info.current_handicap_s_per_hr), "None")

SeasonEntries(fleet, race) ==
    [i \in 1..Len(fleet) |-> SeasonEntry(fleet[i], race, OrZero(parse_hms(race.start_time)))]

\* the groups of the season: one per series that has races, by series name,
\* its races in chronological order, each with the scorer's results
SeasonGroup(fleet, series) ==
    [series_id |-> series.series_id,
     series_name |-> series.name,
     races |-> [i \in 1..Len(series.races) |->
                   [race_id |-> series.races[i].race_id,
                    results |-> calculate_race_results(SeasonEntries(fleet, series.races[i]))]]]

RaceGroups(db, fleet) ==
    LET names == SelectSeq(Ascending(SeriesNames),
                           LAMBDA nm : \E rid \in DOMAIN db.races : db.races[rid].series_id = nm)
    IN  [i \in 1..Len(names) |-> SeasonGroup(fleet, LoadSeries(db.series, db.races, names[i]))]

\* a finisher of a race without initial_handicap makes the scorer raise
SeasonRaises(db) ==
    \E rid \in DOMAIN db.races :
        ScoringRaises(SeasonEntries(LoadFleet(db.competitors), LoadRace(db.races, rid)))

\* what one race adds to the aggregate of a competitor
RacePoints(race, cid, scoring_mode) ==
    LET res == race.results[CHOOSE j \in 1..Len(race.results) :
                                race.results[j].competitor_id = cid]
    IN  [race_id |-> race.race_id,
         points |-> IF scoring_mode = "traditional"
                    THEN 10 * res.traditional_points ELSE res.points_x10,
         finished |-> res.finish # None]

\* series_results[idx]: the races of one group, for one competitor
SeriesResults(group, cid, scoring_mode) ==
    [i \in 1..Len(group.races) |-> RacePoints(group.races[i], cid, scoring_mode)]

\* (variant: the lowest scores are dropped)
ToDropLowest(series_results, drop_n) ==
    SubSeq(Values(StableSortLex([i \in 1..Len(series_results) |->
               [k |-> <<series_results[i].points>>, v |-> series_results[i]]])), 1, drop_n)

\* sorted(results, key=points, reverse=True)[:drop_n]
ToDrop(series_results, drop_n) ==
    SubSeq(Values(StableSortLex([i \in 1..Len(series_results) |->
               [k |-> <<-series_results[i].points>>, v |-> series_results[i]]])), 1, drop_n)

DropN(finish_count) ==
    IF finish_count > 4 THEN 2 ELSE IF finish_count = 4 THEN 1 ELSE 0

\* (variant: every race of the series is counted, finished or not)
FinishCountAll(series_results) == Len(series_results)

FinishCount(series_results) ==
    Cardinality({i \in 1..Len(series_results) : series_results[i].finished})

PointsOf(series_results) == [i \in 1..Len(series_results) |-> series_results[i].points]

\* the subtotal of one series: in traditional mode the drops come off
SeriesTotal(series_results, scoring_mode) ==
    IF scoring_mode = "traditional"
    THEN SumSeq(PointsOf(series_results))
         - SumSeq(PointsOf(ToDrop(series_results, DropN(FinishCount(series_results)))))
    ELSE SumSeq(PointsOf(series_results))

DroppedIn(series_results, scoring_mode) ==
    IF scoring_mode = "traditional"
    THEN {r.race_id : r \in {ToDrop(series_results, DropN(FinishCount(series_results)))[i] :
                              i \in 1..DropN(FinishCount(series_results))}}
    ELSE {}

RaceIdsOf(groups) ==
    UNION {{groups[g].races[i].race_id : i \in 1..Len(groups[g].races)} : g \in 1..Len(groups)}

RaceOf(groups, rid) ==
    LET g == CHOOSE h \in 1..Len(groups) :
                \E i \in 1..Len(groups[h].races) : groups[h].races[i].race_id = rid
    IN  groups[g].races[CHOOSE k \in 1..Len(groups[g].races) : groups[g].races[k].race_id = rid]

\* the row of one competitor; series are keyed by their 0-based group index
StandingRow(groups, cid, scoring_mode) ==
    [sailor |-> cid,
     race_count |-> SumSeq([g \in 1..Len(groups) |->
                               FinishCount(SeriesResults(groups[g], cid, scoring_mode))]),
     total_points |-> SumSeq([g \in 1..Len(groups) |->
                               SeriesTotal(SeriesResults(groups[g], cid, scoring_mode), scoring_mode)]),
     race_points |-> [rid \in RaceIdsOf(groups) |->
                         RacePoints(RaceOf(groups, rid), cid, scoring_mode).points],
     race_finished |-> [rid \in RaceIdsOf(groups) |->
                         RacePoints(RaceOf(groups, rid), cid, scoring_mode).finished],
     series_totals |-> [idx \in 0..(Len(groups) - 1) |->
                           SeriesTotal(SeriesResults(groups[idx + 1], cid, scoring_mode), scoring_mode)],
     series_counts |-> IF scoring_mode = "traditional"
                       THEN [idx \in 0..(Len(groups) - 1) |->
                                FinishCount(SeriesResults(groups[idx + 1], cid, scoring_mode))]
                       ELSE EmptyMap,
     dropped_races |-> UNION {DroppedIn(SeriesResults(groups[g], cid, scoring_mode), scoring_mode) :
                                 g \in 1..Len(groups)}]

\* the "=N" / "N" position texts of the sorted rows
RECURSIVE PlaceLoop(_, _)
PlaceLoop(rows, idx) ==
    IF idx = 0 THEN [prev |-> None, prev_place |-> 0, out |-> <<>>]
    ELSE CHOOSE next \in
             { IF /\ st.prev # None
                  /\ rows[idx].total_points = st.prev[1].total_points
                  /\ rows[idx].race_count = st.prev[1].race_count
               THEN [st EXCEPT !.out = Append(st.out, [equals |-> TRUE, place |-> st.prev_place])]
               ELSE [prev |-> Some(rows[idx]), prev_place |-> idx,
                     out |-> Append(st.out, [equals |-> FALSE, place |-> idx])] :
               st \in {PlaceLoop(rows, idx - 1)} } : TRUE

\* (variant: a tied row shows its own index)
Positioned(rows, places) ==
    [i \in 1..Len(rows) |-> [row |-> rows[i], position |-> places[i]]]

\* (variant: a tied row shows its own index)
WithPositionsOwnIndex(rows) ==
    Positioned(rows, [i \in 1..Len(rows) |->
                         [equals |-> PlaceLoop(rows, Len(rows)).out[i].equals, place |-> i]])

WithPositions(rows) == Positioned(rows, PlaceLoop(rows, Len(rows)).out)

\* standings.sort: low points first in traditional mode, high points first in
\* league mode, then more races first, then the sailor
SortedRows(rows, scoring_mode) ==
    Values(StableSortLex([i \in 1..Len(rows) |->
        [k |-> <<IF scoring_mode = "traditional" THEN rows[i].total_points
                 ELSE -rows[i].total_points,
                 -rows[i].race_count, rows[i].sailor>>,
         v |-> rows[i]]]))

\* the roster competitors that have an aggregate: everyone, once there is a race
Aggregated(groups, fleet) ==
    SelectSeq([i \in 1..Len(fleet) |-> fleet[i].competitor_id],
              LAMBDA cid : groups # <<>>)

StandingsOf(groups, fleet, scoring_mode) ==
    CHOOSE out \in
        { WithPositions(sorted) :
            sorted \in {SortedRows(
                [i \in 1..Len(Aggregated(groups, fleet)) |->
                    StandingRow(groups, Aggregated(groups, fleet)[i], scoring_mode)],
                scoring_mode)} } : TRUE

SeasonLoaded(db, fleet, scoring_mode) ==
    CHOOSE out \in { StandingsOf(groups, fleet, scoring_mode) :
                        groups \in {RaceGroups(db, fleet)} } : TRUE

season_standings(db, scoring_mode) ==
    CHOOSE out \in { SeasonLoaded(db, fleet, scoring_mode) :
                        fleet \in {LoadFleet(db.competitors)} } : TRUE

-----------------------------------------------------------------------------
(* Specification of the standings: a season of races, recalculated when the *)
(* application starts, then                                                 *)
(* the standings page in either mode                                        *)

MaxSeason == 5       \* most races in the season

\* the roster of the season: starting handicaps of three boats
SeasonRoster == (1 :> 5 @@ 2 :> 10 @@ 3 :> 0)

Midnight == Hms(0, 0, 0)

\* who does what in a race of the season
SeasonShapes ==
    { (1 :> Row(Some(FinishFast), None) @@ 2 :> Row(Some(FinishSlow), None) @@ 3 :> Absent),
      (1 :> Row(Some(FinishSlow), None) @@ 2 :> Row(Some(FinishFast), None) @@ 3 :> Absent),
      (1 :> Row(Some(FinishFast), None) @@ 2 :> Row(None, None) @@ 3 :> Absent),
      (1 :> Row(None, None) @@ 2 :> Absent @@ 3 :> Absent),
      (1 :> Row(Some(FinishFast), None) @@ 2 :> Row(Some(FinishFast), None)
         @@ 3 :> Row(Some(FinishSlow), None)) }

InitStandings ==
    /\ series_table = DistinctNames
    /\ scoring = LoadScoring(ClubSettings)
    /\ \E n \in 1..MaxSeason :
       \E first \in {n - 1, n}, start \in {StartTime, Midnight} :
       \E shape \in [1..n -> SeasonShapes] :
          \* the first races are in series 1, the later ones in series 2
          races = StoredRaces(DistinctNames, [i \in 1..n |->
                      RaceObject(IF i <= first THEN 1 ELSE 2, i, Some(start), shape[i], None)])
    /\ competitors = [cid \in DOMAIN SeasonRoster |->
                         [starting_handicap_s_per_hr |-> Some(SeasonRoster[cid]),
                          current_handicap_s_per_hr |-> Some(SeasonRoster[cid])]]
    /\ entries = <<>>
    /\ results = <<>>
    /\ table = <<>>
    /\ looked = <<>>
    /\ baseline = <<>>
    /\ trail = <<Call("create_app", None)>>
    /\ mode = ""
    /\ standings = <<>>
    /\ processed = <<>>
    /\ settings_row = <<>>
    /\ cache = EmptyCache
    /\ returned = <<>>
    /\ inflight = <<>>
    /\ lastOp = "init"

\* GET /standings?format=<scoring>
SeasonStandings ==
    /\ lastOp = "recalculate_handicaps"
    /\ ~SeasonRaises(Db)
    /\ \E scoring_mode \in {"league", "traditional"} :
          /\ mode' = scoring_mode
          /\ standings' = season_standings(Db, scoring_mode)
    /\ lastOp' = "_season_standings"
    /\ UNCHANGED <<settings_row, cache, returned, inflight, series_table, processed, scoring, entries, results, table, looked, competitors, races, baseline, trail>>

NextStandings ==
    \/ Recalculate
    \/ SeasonStandings

SpecStandings == InitStandings /\ [][NextStandings]_vars

-----------------------------------------------------------------------------
(* Pages and settings: standings, series_detail and save_settings of        *)
(* app/routes.py, served one request at a time                              *)

MaxVersion == 4      \* largest settings version stored

\* data/settings.json, which app/scoring.py reads when it is imported or
\* reloaded; no handler writes the file
SettingsFile == ClubSettings

\* a version a client puts in the body of POST /api/settings
SuppliedVersion == 7

\* the bodies of POST /api/settings: the three lists, with or without a version
SettingsPayloads == [version : {None, Some(SuppliedVersion)}, tables : SettingsChoices]

\* existing = ds_get_settings() or {"version": 0}; int(existing.get("version", 0)):
\* no row, or a config without the key, counts as version 0
StoredVersion(row) == IF row = <<>> THEN 0 ELSE OrZero(row[1].version)

\* (variant: a version in the body is stored as it comes)
save_settings_as_supplied(row, p) ==
    <<[version |-> IF p.version # None THEN p.version ELSE Some(StoredVersion(row) + 1),
       tables |-> p.tables]>>

\* the row ds_set_settings(payload) leaves, payload["version"] overwritten
save_settings(row, p) ==
    <<[version |-> Some(StoredVersion(row) + 1), tables |-> p.tables]>>

\* the whole store, settings included
Stored ==
    [competitors |-> competitors, races |-> races, series |-> series_table,
     settings |-> settings_row]

\* POST /api/settings: the row is replaced, app.scoring is reloaded, both
\* caches are cleared
SaveSettings ==
    /\ Serving
    /\ StoredVersion(settings_row) < MaxVersion
    /\ \E p \in SettingsPayloads : settings_row' = save_settings(settings_row, p)
    /\ scoring' = LoadScoring(SettingsFile)
    /\ cache' = EmptyCache
    /\ baseline' = Stored
    /\ lastOp' = "save_settings"
    /\ trail' = Logged("save_settings")
    /\ UNCHANGED <<returned, inflight, series_table, processed, mode, standings, entries, results, table, looked, competitors, races>>

\* the only season of the store
SeasonYear == 1

\* GET /standings?format=<scoring>: the cached table while its key is in
\* _STANDINGS_CACHE and its time has not passed (expired is what time.time()
\* decides), else the computed table, which is cached
StandingsPage ==
    /\ Serving
    /\ ~SeasonRaises(Db)
    /\ \E scoring_mode \in {"league", "traditional"}, expired \in BOOLEAN :
          /\ mode' = scoring_mode
          /\ IF <<SeasonYear, scoring_mode>> \in DOMAIN cache.standings /\ ~expired
             THEN /\ returned' = cache.standings[<<SeasonYear, scoring_mode>>]
                  /\ cache' = cache
             ELSE \E computed \in {season_standings(Db, scoring_mode)} :
                  /\ returned' = computed
                  /\ cache' = [cache EXCEPT !.standings =
                                  Put(@, <<SeasonYear, scoring_mode>>, computed)]
    /\ lastOp' = "standings"
    /\ trail' = Logged("standings")
    /\ UNCHANGED <<settings_row, inflight, series_table, processed, standings, scoring, entries, results, table, looked, competitors, races, baseline>>

\* pre_race_handicaps[cid] of series_detail: the override, else the stored
\* initial_handicap, else the starting handicap of the fleet
PageSeed(info, race) ==
    IF \A i \in 1..Len(race.competitors) : race.competitors[i].competitor_id # info.competitor_id
    THEN Some(info.starting_handicap_s_per_hr)
    ELSE IF EntrantOf(race, info.competitor_id).handicap_override # None
    THEN EntrantOf(race, info.competitor_id).handicap_override
    ELSE IF EntrantOf(race, info.competitor_id).initial_handicap # None
    THEN EntrantOf(race, info.competitor_id).initial_handicap
    ELSE Some(info.starting_handicap_s_per_hr)

\* calc_entries of series_detail: one entry per competitor of the fleet, with
\* a finish only for an entrant that has one
PageEntries(fleet, race) ==
    [i \in 1..Len(fleet) |->
        Entry(fleet[i].competitor_id,
              OrZero(parse_hms(race.start_time)),
              IF \E j \in 1..Len(race.competitors) :
                     race.competitors[j].competitor_id = fleet[i].competitor_id
              THEN parse_hms(EntrantOf(race, fleet[i].competitor_id).finish_time)
              ELSE None,
              PageSeed(fleet[i], race),
              "None")]

\* the results series_detail computes for the selected race
race_page(db, race_id) ==
    calculate_race_results(PageEntries(LoadFleet(db.competitors), LoadRace(db.races, race_id)))

\* GET /series/<series_id>?race_id=<race_id>: the results cached under the
\* race id while they are there and their time has not passed, else the
\* computed results, which are cached
RacePage ==
    /\ Serving
    /\ \E race_id \in DOMAIN races, expired \in BOOLEAN :
          IF race_id \in DOMAIN cache.race /\ ~expired
          THEN /\ returned' = [race_id |-> race_id, results |-> cache.race[race_id]]
               /\ cache' = cache
          ELSE \E computed \in {race_page(Db, race_id)} :
               /\ returned' = [race_id |-> race_id, results |-> computed]
               /\ cache' = [cache EXCEPT !.race = Put(@, race_id, computed)]
    /\ lastOp' = "series_detail"
    /\ trail' = Logged("series_detail")
    /\ UNCHANGED <<settings_row, inflight, series_table, processed, mode, standings, scoring, entries, results, table, looked, competitors, races, baseline>>

\* the application started on a store with one race and any settings row
InitPages ==
    /\ series_table = DistinctNames
    /\ scoring = LoadScoring(SettingsFile)
    /\ \E roster \in Rosters :
       \E drawn \in {[series |-> DistinctNames,
                      competitors |->
                          [cid \in Cids |->
                              [starting_handicap_s_per_hr |-> Some(roster[cid]),
                               current_handicap_s_per_hr |-> Some(roster[cid])]],
                      races |->
                          StoredRaces(DistinctNames,
                              <<RaceObject(1, 2, Some(StartTime),
                                           (1 :> Row(Some(FinishFast), None)
                                            @@ 2 :> Row(Some(FinishSlow), None)),
                                           None)>>)]} :
       \E started \in {recalculate_handicaps(drawn)} :
          /\ competitors = started.competitors
          /\ races = started.races
    /\ settings_row \in {<<>>,
                         <<[version |-> None, tables |-> ClubSettings]>>,
                         <<[version |-> Some(1), tables |-> DefaultSettings]>>}
    /\ cache = EmptyCache
    /\ returned = <<>>
    /\ inflight = <<>>
    /\ entries = <<>>
    /\ results = <<>>
    /\ table = <<>>
    /\ looked = <<>>
    /\ baseline = <<>>
    /\ mode = ""
    /\ standings = <<>>
    /\ processed = <<>>
    /\ trail = <<Call("create_app", None)>>
    /\ lastOp = "init"

NextPages ==
    \/ CreateRace
    \/ EditRace
    \/ MoveRace
    \/ DeleteRace
    \/ UpdateFleet
    \/ SaveSettings
    \/ StandingsPage
    \/ RacePage

SpecPages == InitPages /\ [][NextPages]_vars

-----------------------------------------------------------------------------
(* Requests served side by side: each handler runs as the sequence of       *)
(* database transactions its code makes (load_data; save_data or set_fleet; *)
(* then, in recalculate_handicaps, load_data, save_data and                  *)
(* apply_recalculated_handicaps), and the transactions of different          *)
(* requests interleave freely: the code takes no lock                        *)

MaxRequests == 2     \* most requests in flight in one run
MaxReads == 1        \* most reads a run observes

\* a request that has arrived: what it asks for, the document it loaded,
\* the store as it was when it arrived, and where it stands
Request(op, race_id, p, comps) ==
    [op |-> op, race_id |-> race_id, p |-> p, comps |-> comps,
     pc |-> "loaded",
     store |-> load_data(series_table, competitors, races),
     before |-> Db,
     held |-> <<>>]

\* the whole handler of a request, run alone on db
Handled(db, r) ==
    IF r.op = "update_race" THEN update_race(db, r.race_id, r.p)
    ELSE IF r.op = "delete_race" THEN delete_race(db, r.race_id[1])
    ELSE update_fleet(db, r.comps)

\* the first write of a handler on the store as it is now, from the document
\* the request loaded when it arrived
SavedBy(db, r) ==
    IF r.op = "update_race"
    THEN IF r.race_id = None
         THEN CreateLoaded(db, r.p, r.store)
         ELSE EditLoaded(db, r.race_id[1], r.p, r.store)
    ELSE IF r.op = "delete_race"
    THEN DeleteLoaded(db, r.race_id[1], r.store)
    ELSE set_fleet(db, NormalizedFleet(r.comps))

\* data, the seeds and the fleet recalculate_handicaps holds once its loop
\* has run on what it loaded
RecalcHeld(db) ==
    LET data == load_data(db.series, db.competitors, db.races)
        done == RecalcLoop(HandicapMap(data.fleet), RaceList(db.races, get_races(db.races)))
    IN  [seasons |-> SeededSeasons(data.seasons, done.seeds),
         fleet |-> FleetWithCurrent(data.fleet, done.handicap_map),
         seeds |-> done.seeds]

\* one transaction of request i has committed
Stepped(i, db, pc, held) ==
    /\ competitors' = db.competitors
    /\ races' = db.races
    /\ inflight' = [inflight EXCEPT ![i].pc = pc, ![i].held = held]
    /\ cache' = IF pc = "done" /\ inflight[i].pc # "loaded" THEN EmptyCache ELSE cache
    /\ UNCHANGED <<settings_row, returned, series_table, processed, mode, standings, scoring, entries, results, table, looked, baseline, trail, lastOp>>

\* a request has arrived and loaded its document
Arrived(r) ==
    /\ inflight' = Append(inflight, r)
    /\ UNCHANGED <<settings_row, cache, returned, series_table, processed, mode, standings, scoring, entries, results, table, looked, competitors, races, baseline, trail, lastOp>>

\* the body of a request that creates a race in the second series
CreateInSecond ==
    Payload(Some(2), Some(1), Some(StartTime),
            <<FinishItem(1, Some(FinishFast)), FinishItem(2, Some(FinishSlow))>>, <<>>)

\* bodies of a request that changes the results of a race
ResultPayloads ==
    { Payload(None, None, None, <<FinishItem(2, Some(FinishSlow))>>, <<>>),
      Payload(None, None, None, <<FinishItem(1, Some(Blank))>>, <<>>) }

\* update_race: store = load_data()
BeginUpdateRace ==
    /\ Len(inflight) < MaxRequests
    /\ \/ Arrived(Request("update_race", None, CreateInSecond, <<>>))
       \/ \E rid \in DOMAIN races, p \in ResultPayloads :
             Arrived(Request("update_race", Some(rid), p, <<>>))

\* delete_race: store = load_data()
BeginDeleteRace ==
    /\ Len(inflight) < MaxRequests
    /\ \E rid \in DOMAIN races : Arrived(Request("delete_race", Some(rid), <<>>, <<>>))

\* update_fleet: the body is read
BeginUpdateFleet ==
    /\ Len(inflight) < MaxRequests
    /\ \E roster \in Rosters : Arrived(Request("update_fleet", None, <<>>, FleetPayload(roster)))

\* save_data({'seasons': ...}) of update_race and delete_race, ds_set_fleet of
\* update_fleet; delete_race and a refused request end here
Save ==
    \E i \in 1..Len(inflight) :
        /\ inflight[i].pc = "loaded"
        /\ \E response \in {SavedBy(Db, inflight[i])} :
              Stepped(i, response.db,
                      IF response.status = 200 /\ inflight[i].op # "delete_race"
                      THEN "saved" ELSE "done",
                      <<>>)

\* recalculate_handicaps: data = load_data() and the loop over race_list
RecalcLoad ==
    \E i \in 1..Len(inflight) :
        /\ inflight[i].pc = "saved"
        /\ Stepped(i, Db, "recalculated", <<RecalcHeld(Db)>>)

\* recalculate_handicaps: save_data({'seasons': ..., 'fleet': ...})
RecalcSave ==
    \E i \in 1..Len(inflight) :
        /\ inflight[i].pc = "recalculated"
        /\ Stepped(i,
                   save_data(Db, [seasons |-> inflight[i].held[1].seasons,
                                  fleet |-> inflight[i].held[1].fleet],
                             {"seasons", "fleet"}),
                   "written", inflight[i].held)

\* recalculate_handicaps: _pg.apply_recalculated_handicaps(pre_by_race,
\* fleet_current); the handler returns
RecalcApply ==
    \E i \in 1..Len(inflight) :
        /\ inflight[i].pc = "written"
        /\ Stepped(i,
                   apply_recalculated_handicaps(Db, PreByRace(inflight[i].held[1].seeds),
                                                FleetCurrent(inflight[i].held[1].fleet)),
                   "done", <<>>)

\* a standings, race-page or health request reads the store as it stands
Read ==
    /\ Len(trail) < MaxReads
    /\ returned' = [seen |-> Db, during |-> inflight]
    /\ trail' = Append(trail, Call("read", None))
    /\ lastOp' = "read"
    /\ UNCHANGED <<settings_row, cache, inflight, series_table, processed, mode, standings, scoring, entries, results, table, looked, competitors, races, baseline>>

\* the application started on a season of two races of the first series
InitConcurrent ==
    /\ series_table = DistinctNames
    /\ scoring = LoadScoring(ClubSettings)
    /\ \E roster \in Rosters :
       \E drawn \in {[series |-> DistinctNames,
                      competitors |->
                          [cid \in Cids |->
                              [starting_handicap_s_per_hr |-> Some(roster[cid]),
                               current_handicap_s_per_hr |-> Some(roster[cid])]],
                      races |->
                          StoredRaces(DistinctNames,
                              <<RaceObject(1, 1, Some(StartTime),
                                           (1 :> Row(Some(FinishFast), None) @@ 2 :> Absent),
                                           None),
                                RaceObject(1, 2, Some(StartTime),
                                           (1 :> Row(Some(FinishFast), None)
                                            @@ 2 :> Row(Some(FinishSlow), None)),
                                           None)>>)]} :
       \E started \in {recalculate_handicaps(drawn)} :
          /\ competitors = started.competitors
          /\ races = started.races
          /\ baseline = started
    /\ settings_row = <<>>
    /\ cache = EmptyCache
    /\ returned = <<>>
    /\ inflight = <<>>
    /\ entries = <<>>
    /\ results = <<>>
    /\ table = <<>>
    /\ looked = <<>>
    /\ mode = ""
    /\ standings = <<>>
    /\ processed = <<>>
    /\ trail = <<>>
    /\ lastOp = "init"

NextConcurrent ==
    \/ BeginUpdateRace
    \/ BeginDeleteRace
    \/ BeginUpdateFleet
    \/ Save
    \/ RecalcLoad
    \/ RecalcSave
    \/ RecalcApply
    \/ Read

SpecConcurrent == InitConcurrent /\ [][NextConcurrent]_vars

-----------------------------------------------------------------------------
(* Properties of the traditional points                                     *)

\* indices of the entries that finish (a finish time and no DNF/DNS/DSQ)
FinisherIndices(es) ==
    {i \in 1..Len(es) : es[i].finish # None /\ es[i].status \notin {"DNF", "DNS", "DSQ"}}

Totalled == lastOp = "compute_traditional_standings"

TotalOf(cid) ==
    LET row == CHOOSE k \in 1..Len(standings) : standings[k].sailor = cid
    IN  standings[row].total_points

PositionIn(r, cid) ==
    LET j == CHOOSE k \in 1..Len(results[r]) : results[r][k].competitor_id = cid
    IN  results[r][j].handicap_position[1]

\* C12: when every entry starts at 0 seconds and each race has a finisher,
\* a finisher's traditional_points is its handicap_position and a
\* non-finisher's is the finisher count + 1; over the two races a boat that
\* retired from race 1 and finished race 2 totals (finishers of race 1 + 1) +
\* (its position in race 2).
TraditionalPointsCompose ==
    (/\ Totalled
     /\ \A r \in 1..2 : \A i \in 1..Len(entries[r]) : entries[r][i].start = 0
     /\ \A r \in 1..2 : FinisherIndices(entries[r]) # {}) =>
        /\ \A r \in 1..2 : \A j \in 1..Len(results[r]) :
              results[r][j].traditional_points =
                  IF results[r][j].handicap_position # None
                  THEN results[r][j].handicap_position[1]
                  ELSE Cardinality(FinisherIndices(entries[r])) + 1
        /\ \A i \in 1..Len(entries[1]) :
              (i \notin FinisherIndices(entries[1]) /\ i \in FinisherIndices(entries[2])) =>
                  TotalOf(i) = Cardinality(FinisherIndices(entries[1])) + 1 + PositionIn(2, i)

\* the fixture of the unit test: A, B finish race 1 and C retires; C wins race 2
TraditionalPointsComposeFixture ==
    /\ Totalled
    /\ \A r \in 1..2 : \A i \in 1..3 : entries[r][i].start = 0
    /\ FinisherIndices(entries[1]) = {1, 2}
    /\ FinisherIndices(entries[2]) = {1, 3}
    /\ TotalOf(3) = 0

\* the same statement for races that start later than 0
TraditionalPointsComposeStarted ==
    (/\ Totalled
     /\ \A r \in 1..2 : \A i \in 1..Len(entries[r]) : entries[r][i].start # 0
     /\ \A r \in 1..2 : FinisherIndices(entries[r]) # {}) =>
        /\ \A r \in 1..2 : \A j \in 1..Len(results[r]) :
              results[r][j].traditional_points =
                  IF results[r][j].handicap_position # None
                  THEN results[r][j].handicap_position[1]
                  ELSE Cardinality(FinisherIndices(entries[r])) + 1
        /\ \A i \in 1..Len(entries[1]) :
              (i \notin FinisherIndices(entries[1]) /\ i \in FinisherIndices(entries[2])) =>
                  TotalOf(i) = Cardinality(FinisherIndices(entries[1])) + 1 + PositionIn(2, i)

-----------------------------------------------------------------------------
(* Properties of the season standings                                       *)

Standing(scoring_mode) == lastOp = "_season_standings" /\ mode = scoring_mode

RECURSIVE SumOver(_, _)
SumOver(S, f) ==
    IF S = {} THEN 0
    ELSE LET x == CHOOSE y \in S : TRUE IN f[x] + SumOver(S \ {x}, f)

\* the series that have races, by name: the n-th of them has index n - 1
SeriesWithRaces == Ascending({races[rid].series_id : rid \in DOMAIN races})
RacesOfSeries(ser) == {rid \in DOMAIN races : races[rid].series_id = ser}

\* the store says that the competitor finished the race
FinishedInStore(rid, cid) ==
    /\ cid \in DOMAIN races[rid].competitors
    /\ Truthy(races[rid].competitors[cid].finish_time)

FinishersInStore(rid) == {cid \in DOMAIN races[rid].competitors : FinishedInStore(rid, cid)}

DropAllowance(finished) == IF finished > 4 THEN 2 ELSE IF finished = 4 THEN 1 ELSE 0

\* C13: in traditional standings every competitor's subtotal of a series is
\* the sum of their traditional points over the races of the series minus the
\* k highest of them, k = 2 if they finished more than 4 races of the series,
\* 1 if exactly 4, else 0; their total is the sum of the subtotals.
TraditionalDrops ==
    Standing("traditional") =>
        \A i \in 1..Len(standings) :
            LET row == standings[i].row
            IN  /\ DOMAIN row.series_totals = 0..(Len(SeriesWithRaces) - 1)
                /\ \A idx \in DOMAIN row.series_totals :
                      LET rs == RacesOfSeries(SeriesWithRaces[idx + 1])
                          k == DropAllowance(Cardinality(
                                   {rid \in rs : FinishedInStore(rid, row.sailor)}))
                      IN  \E dropped \in SUBSET rs :
                             /\ Cardinality(dropped) = k
                             /\ \A d \in dropped, kept \in rs \ dropped :
                                   row.race_points[d] >= row.race_points[kept]
                             /\ row.series_totals[idx] = SumOver(rs \ dropped, row.race_points)
                /\ row.total_points = SumOver(DOMAIN row.series_totals, row.series_totals)

\* a boat that finished the four races of a series and has one score dropped,
\* next to a second series that counts in full
TraditionalDropsWitness ==
    /\ Standing("traditional")
    /\ Len(SeriesWithRaces) = 2
    /\ \E i \in 1..Len(standings) :
          /\ Cardinality({rid \in RacesOfSeries(1) : FinishedInStore(rid, standings[i].row.sailor)}) = 4
          /\ Cardinality(standings[i].row.dropped_races) = 1
          /\ standings[i].row.series_totals[0] < SumOver(RacesOfSeries(1), standings[i].row.race_points)
          /\ standings[i].row.series_totals[1] > 0

RowOf(cid) == standings[CHOOSE i \in 1..Len(standings) : standings[i].row.sailor = cid].row

AbsentFrom(rid, cid) == cid \notin DOMAIN races[rid].competitors

\* what is common to C14 as stated and as amended: the row exists, an absent
\* boat is marked not finished, only finished races are counted, and an
\* absent boat scores 0 league points
AbsentIncluded ==
    /\ races # EmptyMap => \A cid \in DOMAIN competitors :
                              \E i \in 1..Len(standings) : standings[i].row.sailor = cid
    /\ \A i \in 1..Len(standings) :
          LET row == standings[i].row
          IN  /\ row.race_count =
                     Cardinality({rid \in DOMAIN races : FinishedInStore(rid, row.sailor)})
              /\ \A rid \in DOMAIN races :
                    AbsentFrom(rid, row.sailor) =>
                        /\ row.race_finished[rid] = FALSE
                        /\ mode = "league" => row.race_points[rid] = 0

SameScore(i, j) ==
    /\ standings[i].row.total_points = standings[j].row.total_points
    /\ standings[i].row.race_count = standings[j].row.race_count

TieGroup(i) == {j \in 1..Len(standings) : SameScore(i, j)}

\* C15 as stated: rows with the same total_points and race_count show the
\* same position number and all of them carry the tie mark "=N"; the first
\* row after a tie group shows its own 1-based index; rows that differ in
\* total_points or race_count never show the same number.
TiesAllMarked ==
    lastOp = "_season_standings" =>
        \A i \in 1..Len(standings) :
            /\ \A j \in TieGroup(i) : standings[j].position.place = standings[i].position.place
            /\ Cardinality(TieGroup(i)) > 1 => standings[i].position.equals
            /\ Cardinality(TieGroup(i)) = 1 =>
                  standings[i].position = [equals |-> FALSE, place |-> i]
            /\ \A j \in 1..Len(standings) :
                  ~SameScore(i, j) => standings[j].position.place # standings[i].position.place

\* C15 as amended: rows with the same total_points and race_count show the
\* same position number N, the 1-based index of the first of them; that first
\* row shows "N" and the others "=N"; the first row after a tie group shows
\* its own 1-based index; rows that differ in total_points or race_count
\* never show the same number.
TiesMarkedAfterFirst ==
    lastOp = "_season_standings" =>
        \A i \in 1..Len(standings) :
            /\ standings[i].position.place = SetMin(TieGroup(i))
            /\ standings[i].position.equals = (i # SetMin(TieGroup(i)))
            /\ \A j \in 1..Len(standings) :
                  ~SameScore(i, j) => standings[j].position.place # standings[i].position.place

\* two boats tied in first place and a third boat shown third
TiesMarkedWitness ==
    /\ lastOp = "_season_standings"
    /\ Len(standings) = 3
    /\ SameScore(1, 2)
    /\ standings[1].row.race_count > 0
    /\ standings[1].position = [equals |-> FALSE, place |-> 1]
    /\ standings[2].position = [equals |-> TRUE, place |-> 1]
    /\ standings[3].position = [equals |-> FALSE, place |-> 3]

-----------------------------------------------------------------------------
(* Properties of the recalculation: failure semantics and processing order *)

\* some entrant of the store has a finish time that does not parse
HasMalformed(db) ==
    \E rid \in DOMAIN db.races : \E cid \in DOMAIN db.races[rid].competitors :
        ParseRaises(db.races[rid].competitors[cid].finish_time)

\* the store with every such finish time cleared
ClearedMalformed(db) ==
    [series |-> db.series,
     competitors |-> db.competitors,
     races |-> [rid \in DOMAIN db.races |->
         [db.races[rid] EXCEPT !.competitors =
             [cid \in DOMAIN db.races[rid].competitors |->
                 IF ParseRaises(db.races[rid].competitors[cid].finish_time)
                 THEN [db.races[rid].competitors[cid] EXCEPT !.finish_time = None]
                 ELSE db.races[rid].competitors[cid]]]]]

\* C16: when a stored entrant has a finish time that does not parse,
\* recalculate_handicaps still completes, and the seed of every other entrant
\* and the current handicap of every competitor are the ones it computes
\* when that entrant has no finish time.
MalformedFinishTolerated ==
    (trail # <<>> /\ HasMalformed(baseline)) =>
        /\ lastOp = "recalculate_handicaps"
        /\ LET expected == recalculate_handicaps(ClearedMalformed(baseline))
           IN  /\ \A cid \in DOMAIN competitors :
                     competitors[cid].current_handicap_s_per_hr =
                         expected.competitors[cid].current_handicap_s_per_hr
               /\ \A rid \in DOMAIN races : \A cid \in DOMAIN races[rid].competitors :
                     ~ParseRaises(baseline.races[rid].competitors[cid].finish_time) =>
                         races[rid].competitors[cid].initial_handicap =
                             expected.races[rid].competitors[cid].initial_handicap

\* the competitor has no starting handicap and has entered no race
UnratedNewcomer(cid) ==
    /\ competitors[cid].starting_handicap_s_per_hr = None
    /\ \A rid \in DOMAIN races : cid \notin DOMAIN races[rid].competitors

\* C17: a request that would make a competitor without a starting handicap
\* and without a prior race an entrant, with no override on that race, is
\* refused and changes nothing: no step of the API leaves such a competitor
\* an entrant (seeded with 0 or with anything else).
UnratedEntrantRejected ==
    [][\A cid \in DOMAIN competitors :
          UnratedNewcomer(cid) =>
              \A rid \in DOMAIN races' :
                  cid \in DOMAIN races'[rid].competitors =>
                      races'[rid].competitors[cid].handicap_override # None]_vars

\* C18: recalculate_handicaps takes the races of all series in ascending
\* (date, start_time) order, and races equal in both in ascending race_id
\* order, whichever source the order comes from.
ChronologicalOrder ==
    lastOp = "recalculate_handicaps" =>
        /\ {processed[i] : i \in 1..Len(processed)} = DOMAIN races
        /\ \A i \in 1..(Len(processed) - 1) :
              LexLeq(<<races[processed[i]].date>>
                         \o SqlTimeKey(races[processed[i]].start_time) \o processed[i],
                     <<races[processed[i + 1]].date>>
                         \o SqlTimeKey(races[processed[i + 1]].start_time)
                         \o processed[i + 1])

-----------------------------------------------------------------------------
(* Properties of the numbering of races *)

\* the races of every series are numbered 1..n, in ascending (date,
\* start_time) order
Numbered(rcs) ==
    \A sid \in SeriesNames :
        LET own == {rid \in DOMAIN rcs : rcs[rid].series_id = sid}
        IN  /\ \A n \in 1..Cardinality(own) :
                  Cardinality({rid \in own : rcs[rid].race_no = n}) = 1
            /\ \A a, b \in own :
                  rcs[a].race_no < rcs[b].race_no =>
                      LexLeq(<<rcs[a].date>> \o SqlTimeKey(rcs[a].start_time),
                             <<rcs[b].date>> \o SqlTimeKey(rcs[b].start_time))

\* the entrants of a race: competitor_id -> (finish_time, handicap_override)
EntrantsOf(rcs, rid) ==
    [cid \in DOMAIN rcs[rid].competitors |->
        <<rcs[rid].competitors[cid].finish_time,
          rcs[rid].competitors[cid].handicap_override>>]

\* every race of before is a race of after with the same entrants, different
\* races staying different, and each race of kept is in the same series on
\* the same date and start time as well
KeptIn(before, kept, after) ==
    \E f \in [DOMAIN before -> DOMAIN after] :
        /\ \A a, b \in DOMAIN before : a # b => f[a] # f[b]
        /\ \A rid \in DOMAIN before :
              EntrantsOf(before, rid) = EntrantsOf(after, f[rid])
        /\ \A rid \in kept :
              /\ before[rid].series_id = after[f[rid]].series_id
              /\ before[rid].date = after[f[rid]].date
              /\ before[rid].start_time = after[f[rid]].start_time

\* the store without one race
Without(rcs, rid) == [r \in DOMAIN rcs \ {rid} |-> rcs[r]]

\* C19: after every completed create, date change, move or delete of a race
\* the races of each series are numbered 1..n without gap or duplicate in
\* ascending (date, start_time) order, and every race but a deleted one
\* still has the entrants (competitor, finish time, override) it had.
RenumberingKeepsEntrants ==
    /\ \A p \in CreatePayloads : \A r \in {update_race(Db, None, p)} :
          r.status = 200 =>
              /\ Numbered(r.db.races)
              /\ Cardinality(DOMAIN r.db.races) = Cardinality(DOMAIN races) + 1
              /\ KeptIn(races, DOMAIN races, r.db.races)
    /\ \A rid \in DOMAIN races :
          /\ \A p \in {Payload(None, Some(day), None, <<>>, <<>>) : day \in Dates}
                      \cup {Payload(Some(ser), None, None, <<>>, <<>>) : ser \in SeriesNames} :
                \A r \in {update_race(Db, Some(rid), p)} :
                    r.status = 200 =>
                        /\ Numbered(r.db.races)
                        /\ KeptIn(races, DOMAIN races \ {rid}, r.db.races)
          /\ \A r \in {delete_race(Db, rid)} :
                r.status = 200 =>
                    /\ Numbered(r.db.races)
                    /\ Cardinality(DOMAIN r.db.races) = Cardinality(DOMAIN races) - 1
                    /\ KeptIn(Without(races, rid), DOMAIN races \ {rid}, r.db.races)

\* no two races of a document carry the same race_id
DistinctIds(seasons) ==
    \A i, j \in 1..Len(DocRaces(seasons)) :
        i # j => DocRaces(seasons)[i].race.race_id # DocRaces(seasons)[j].race.race_id

\* the documents that the requests accepted on the current store hand to
\* save_data, after renumber_races has assigned the ids
RenumberedDocuments ==
    LET store == load_data(series_table, competitors, races)
        found(rid) == FindRace(store.seasons, rid)[1]
    IN  {CreateSeasons(store.seasons, NewRace(p)) :
            p \in {q \in CreatePayloads : Truthy(q.start_time)}}
        \cup
        {EditSeasons(store.seasons, rid, found(rid).series_id,
                     EditedObject(found(rid).race, TargetSeries(p, found(rid).series_id),
                                  p, store.fleet)) :
            rid \in DOMAIN races,
            p \in EditPayloads \cup {Payload(Some(ser), None, None, <<>>, <<>>) :
                                        ser \in SeriesNames}}
        \cup
        {DeleteSeasons(store.seasons, rid) : rid \in DOMAIN races}

\* C20: in every state reached by creating, editing, moving and deleting
\* races, the ids that renumber_races assigns are pairwise distinct over the
\* whole dataset, across series and seasons.
UniqueRaceIds == \A doc \in RenumberedDocuments : DistinctIds(doc)

-----------------------------------------------------------------------------
(* Properties of the forward recalculation asked for an unknown race *)

\* the last call was recalculate_handicaps_from with an id the store lacks
AskedForMissing ==
    /\ trail # <<>>
    /\ Last(trail).op = "recalculate_handicaps_from"
    /\ Last(trail).arg[1] \notin DOMAIN baseline.races

\* C27: recalculate_handicaps_from called with a race id that is not in the
\* chronological race list returns normally and leaves the store as a full
\* recalculation of all races leaves it
MissingRaceFallsBack ==
    AskedForMissing =>
        /\ lastOp = "recalculate_handicaps_from"
        /\ Db = recalculate_handicaps(baseline)

-----------------------------------------------------------------------------
(* Properties of the responses of update_race *)

\* the bodies that create a race in a series of the store that has races,
\* with that series as load_data lists it
CreatesInUsedSeries ==
    {<<p, ser>> \in CreatePayloads \X {load_data(series_table, competitors, races).seasons[i] :
                                           i \in 1..Cardinality(SeriesNames)} :
        /\ ser.series_id = p.series_id[1]
        /\ ser.races # <<>>
        /\ update_race(Db, None, p).status = 200}

\* C30: when update_race creates a race in a series that already has races,
\* the race taken as the new race after renumbering (the last of the series
\* list) is the race just added, whatever its date and start time, so the
\* redirect names the new race
RedirectNamesNewRace ==
    \A c \in CreatesInUsedSeries :
        new_race_id(c[2], NewRace(c[1])) = AddedRaceId(c[2], NewRace(c[1]))

\* the body that clears the finish time of one competitor
ClearPayload(cid) == Payload(None, None, None, <<FinishItem(cid, Some(Blank))>>, <<>>)

\* the stored rows of a race that have a finish time
StoredFinishers(db, rid) ==
    {cid \in DOMAIN db.races[rid].competitors :
        db.races[rid].competitors[cid].finish_time # None}

\* C24: editing a race with an empty finish_time for an entrant that has no
\* handicap override removes the entrant's row: the stored entrant list has no
\* entry for the competitor and the race has one finisher fewer
ClearedEntrantRemoved ==
    \A rid \in DOMAIN races : \A cid \in DOMAIN races[rid].competitors :
        races[rid].competitors[cid].handicap_override = None =>
            \A r \in {update_race(Db, Some(rid), ClearPayload(cid))} :
                r.status = 200 =>
                    /\ rid \in DOMAIN r.db.races
                    /\ cid \notin DOMAIN r.db.races[rid].competitors
                    /\ cid \in StoredFinishers(Db, rid) =>
                          Cardinality(StoredFinishers(r.db, rid))
                              = Cardinality(StoredFinishers(Db, rid)) - 1

-----------------------------------------------------------------------------
(* Properties of the stored current handicap *)

\* handicap_map when the loop of recalculate_handicaps() over db has ended
ComputedHandicaps(db) ==
    RecalcLoop(HandicapMap(LoadFleet(db.competitors)),
               RaceList(db.races, get_races(db.races))).handicap_map

\* C29: the current handicap computed by the recalculation is stored and read
\* back unchanged, 0 and negative values included: load_data and get_fleet
\* report the computed value and never the starting handicap in its place
CurrentReadBack ==
    lastOp = "recalculate_handicaps" =>
        \A cid \in DOMAIN ComputedHandicaps(baseline) \cap DOMAIN competitors :
            /\ competitors[cid].current_handicap_s_per_hr
                  = Some(ComputedHandicaps(baseline)[cid])
            /\ \A i \in 1..Len(LoadFleet(competitors)) :
                  LoadFleet(competitors)[i].competitor_id = cid =>
                      LoadFleet(competitors)[i].current_handicap_s_per_hr
                          = ComputedHandicaps(baseline)[cid]

-----------------------------------------------------------------------------
(* Properties of what the recalculation leaves alone *)

\* the store without the two fields the recalculation computes
Frame(db) ==
    [races |-> [rid \in DOMAIN db.races |->
                   [date |-> db.races[rid].date,
                    start_time |-> db.races[rid].start_time,
                    series_id |-> db.races[rid].series_id,
                    competitors |-> [cid \in DOMAIN db.races[rid].competitors |->
                        [finish_time |-> db.races[rid].competitors[cid].finish_time,
                         handicap_override |->
                             db.races[rid].competitors[cid].handicap_override]]]],
     starting |-> [cid \in DOMAIN db.competitors |->
                      db.competitors[cid].starting_handicap_s_per_hr]]

\* C28: recalculate_handicaps changes only the initial_handicap of entrants and
\* the current_handicap_s_per_hr of competitors: the races, their ids, dates,
\* start times and series, the entrants of each race with their finish times
\* and overrides, and every starting_handicap_s_per_hr are stored after the
\* call as they were before it
RecalculationFrame ==
    lastOp = "recalculate_handicaps" => Frame(Db) = Frame(baseline)

-----------------------------------------------------------------------------
(* Properties of the settings and of the cached pages *)

\* C23: every successful save_settings stores the previously stored version
\* plus one, taking 0 when none is stored, whatever version the body carries:
\* over sequential saves the stored version goes up by exactly one per save
VersionIncrements ==
    lastOp = "save_settings" =>
        settings_row[1].version = Some(StoredVersion(baseline.settings) + 1)

\* a save has replaced a row that already carried a version
SavedOverVersion ==
    /\ lastOp = "save_settings"
    /\ baseline.settings # <<>>
    /\ baseline.settings[1].version # None

\* C25: once a request that changes stored data has completed, a standings or
\* race page never shows a cached result computed before the change: what the
\* page returns is what the current store gives
PagesFresh ==
    /\ lastOp = "standings" => returned = season_standings(Db, mode)
    /\ lastOp = "series_detail" => returned.results = race_page(Db, returned.race_id)

\* C26: after save_settings has returned, scoring uses the handicap-delta,
\* league-points and fleet-factor tables built from the settings just saved
SavedSettingsInUse ==
    lastOp = "save_settings" => scoring = LoadScoring(settings_row[1].tables)

-----------------------------------------------------------------------------
(* Properties of requests served side by side *)

\* a read made while one update_race or update_fleet request, and no other,
\* was in flight
ReadDuringUpdate ==
    /\ returned # <<>>
    /\ Len(returned.during) = 1
    /\ returned.during[1].op \in {"update_race", "update_fleet"}

\* C21: a reader interleaved with an update_race or update_fleet request
\* never observes the edit stored without the recalculated initial_handicap
\* and current_handicap_s_per_hr values: it sees the store as it was when
\* the request arrived, or as the whole request leaves it
EditAndRecalculationTogether ==
    ReadDuringUpdate =>
        \/ returned.seen = returned.during[1].before
        \/ returned.seen = Handled(returned.during[1].before, returned.during[1]).db

\* two requests on races have returned
BothReturned ==
    /\ Len(inflight) = 2
    /\ \A i \in 1..2 : inflight[i].pc = "done" /\ inflight[i].op # "update_fleet"

\* the two requests do not name the same race
DifferentRaces ==
    inflight[1].race_id = None \/ inflight[1].race_id # inflight[2].race_id

\* C22: at most one recalculation runs at a time, and two concurrent requests
\* that edit, create or delete different races are serialized: the final
\* store is what the two handlers leave when one runs after the other, so it
\* holds the effect of both
RequestsSerialized ==
    /\ Cardinality({i \in 1..Len(inflight) :
                       inflight[i].pc \in {"saved", "recalculated", "written"}}) <= 1
    /\ BothReturned /\ DifferentRaces =>
           \/ Db = Handled(Handled(baseline, inflight[1]).db, inflight[2]).db
           \/ Db = Handled(Handled(baseline, inflight[2]).db, inflight[1]).db

====
